---- MODULE Spec2Model ----
(***************************************************************************)
(* Address manager of abcwallet (package udb, type Manager): the two-tier  *)
(* key store, its locked / unlocked / watching-only / closed life cycle,   *)
(* the returned-secrets registry guarded by returnedSecretsMu, and the     *)
(* persisted rows the manager reads and writes.                            *)
(*                                                                         *)
(* Values are tagged tuples.  A key is <<"zero">> (32 zero bytes),         *)
(* <<"ck", kind>> (a generated data-encryption key) or <<"mk", pw, salt>>  *)
(* (the scrypt key of a passphrase and a salt).  A ciphertext is           *)
(* <<"ct", key, plaintext>>: it opens under exactly the key that sealed    *)
(* it.  <<>> is a nil slice / nil pointer.                                 *)
(***************************************************************************)
EXTENDS Integers, Sequences, FiniteSets, TLC

---------------------------------------------------------------------------
(* Bounds of the model. *)

\* Width of the model's machine word: uint32 of the source is scaled to it.
WordBits == 3
\* Number of distinct values the random source (crypto/rand) may return.
NumSalts == 1
\* Release handles one thread may hold at the same time.
MaxHeld == 1

---------------------------------------------------------------------------
(* Program constants. *)

HardenedKeyStart == 2 ^ (WordBits - 1)
MaxAccountNum == HardenedKeyStart - 2
MaxAddressesPerAccount == HardenedKeyStart - 1
ImportedAddrAccount == MaxAccountNum + 1
ImportedAddrAccountName == "imported"
DefaultAccountNum == 0
defaultAccountName == "default"
ExternalBranch == 0
InternalBranch == 1

\* CryptoKeyType
CKTPrivate == "CKTPrivate"
CKTScript == "CKTScript"
CKTPublic == "CKTPublic"

---------------------------------------------------------------------------
(* Inputs. *)

Threads == {"t1", "t2", "t3"}
Passphrases == {"pa", "pb"}
Salts == 1 .. NumSalts
AccountNames == {"default", "imported", "", "acct"}

Nil == <<>>
EmptyMap == <<>>

---------------------------------------------------------------------------
(* Error codes (apperrors.Code).  ErrNone is a nil error; Panic is a Go    *)
(* run-time panic (nil pointer dereference) that unwinds the call.         *)

ErrNone == "nil"
ErrLocked == "ErrLocked"
ErrWatchingOnly == "ErrWatchingOnly"
ErrWrongPassphrase == "ErrWrongPassphrase"
ErrCrypto == "ErrCrypto"
ErrKeyChain == "ErrKeyChain"
ErrDuplicateAddress == "ErrDuplicateAddress"
ErrDuplicateAccount == "ErrDuplicateAccount"
ErrInvalidAccount == "ErrInvalidAccount"
ErrInvalidKeyType == "ErrInvalidKeyType"
ErrAccountNumTooHigh == "ErrAccountNumTooHigh"
ErrNotFound == "ErrNotFound"
ErrBranch == "ErrBranch"
ErrTooManyAddresses == "ErrTooManyAddresses"
ErrData == "ErrData"
ErrInput == "ErrInput"
Panic == "panic"

---------------------------------------------------------------------------
(* Secret primitives (package snacl) and the SHA-512 passphrase hash.      *)

ZeroKey == <<"zero">>
NoKey == <<>>

\* snacl.CryptoKey.Encrypt / SecretKey.Encrypt: authenticated encryption.
Encrypt(key, plain) == <<"ct", key, plain>>

\* Whether Decrypt authenticates: the key is the sealing key.
CanDecrypt(key, ct) == Len(ct) = 3 /\ ct[2] = key

\* snacl.CryptoKey.Decrypt / SecretKey.Decrypt on a ciphertext that opens.
Decrypt(key, ct) == ct[3]

\* The scrypt key of a passphrase under a salt.
MasterKeyOf(pw, salt) == <<"mk", pw, salt>>

\* snacl.SecretKey.Marshal: the parameters alone (salt, digest of the key).
NoParams == <<"params", "", 0>>

\* snacl.NewSecretKey: a fresh salt, the derived key in memory.
NewSecretKey(pw, salt) ==
    [Parameters |-> <<"params", pw, salt>>, Key |-> MasterKeyOf(pw, salt)]

\* snacl.SecretKey.Unmarshal: parameters set, key not derived.
Unmarshal(params) == [Parameters |-> params, Key |-> ZeroKey]

\* var k snacl.SecretKey: the zero value, its Key a nil pointer.
ZeroValueSecretKey == [Parameters |-> NoParams, Key |-> NoKey]

\* A nil *snacl.SecretKey.
NilSecretKey == [nilptr |-> TRUE]

\* snacl.SecretKey.DeriveKey: the key is derived, then checked against the
\* digest of the parameters; the derived key stays in memory either way.
DeriveKeyOk(sk, pw) == sk.Parameters[2] = pw
DeriveKey(sk, pw) ==
    [sk EXCEPT !.Key = MasterKeyOf(pw, sk.Parameters[3])]

\* snacl.SecretKey.Zero
ZeroSecretKey(sk) == [sk EXCEPT !.Key = ZeroKey]

\* sha512.Sum512(append(salt[:], passphrase...))
ZeroHash == <<"h0">>
\* A digest of the salt alone.
HashSaltOnly(salt, pw) == <<"h", salt, "">>
HashPassphrase(salt, pw) == <<"h", salt, pw>>

---------------------------------------------------------------------------
(* HD key layer (package hdkeychain).                                      *)

CoinTypeKeyPriv == <<"xprv", "cointype">>
CoinTypeKeyPub == <<"xpub", "cointype">>
\* deriveAccountKey: m/44'/<coin type>'/<account>'
AcctKeyPriv(account) == <<"xprv", account>>
\* ExtendedKey.Neuter
Neuter(xprv) == <<"xpub", xprv[2]>>
\* ExtendedKey.String and hdkeychain.NewKeyFromString
KeyString(key) == <<"str", key>>
IsKeyString(s) == Len(s) = 2 /\ s[1] = "str"
NewKeyFromString(s) == s[2]

\* The data-encryption keys newCryptoKey generated at creation.
CryptoKeyPub == <<"ck", "pub">>
CryptoKeyPriv == <<"ck", "priv">>
CryptoKeyScript == <<"ck", "script">>

---------------------------------------------------------------------------
(* Addresses.  A private key is <<"wif", w>> (a key foreign to the         *)
(* hierarchy) or <<"hd", account, branch, index>> (the child derived at    *)
(* that path); Hash160 of its public key names the key.                    *)

Wifs == { <<"wif", "w1">> }
Scripts == { <<"script", "s1">> }
PubKeyOf(priv) == <<"pub", priv>>
\* abcutil.Hash160 of a serialized public key / of a script.
PubKeyHash(priv) == <<"pkh", priv>>
ScriptHash(script) == <<"sh", script>>
\* deriveKey: the address key at account / branch / index.
ChildKey(account, branch, index) == <<"hd", account, branch, index>>

---------------------------------------------------------------------------
(* Persistence schema (the waddrmgr buckets).                              *)

\* bip0044AccountInfo: an account row.
bip0044AccountInfo(pubKeyEnc, privKeyEnc, lastUsedExt, lastUsedInt, lastRetExt, lastRetInt, name) ==
    [ pubKeyEncrypted |-> pubKeyEnc,
      privKeyEncrypted |-> privKeyEnc,
      lastUsedExternalIndex |-> lastUsedExt,
      lastUsedInternalIndex |-> lastUsedInt,
      lastReturnedExternalIndex |-> lastRetExt,
      lastReturnedInternalIndex |-> lastRetInt,
      name |-> name ]

\* putAccountInfo: the account row and its name index entry.
putAccountInfo(db, account, row) ==
    [db EXCEPT !.accounts = (account :> row) @@ db.accounts,
               !.acctNameIdx = (row.name :> account) @@ db.acctNameIdx]

\* dbChainAddressRow, dbImportedAddressRow, dbScriptAddressRow
ChainAddressRow(account, branch, index) ==
    [ type |-> "chain", account |-> account, branch |-> branch,
      index |-> index, encryptedPub |-> Nil, encryptedPriv |-> Nil ]
ImportedAddressRow(account, encPubKey, encPrivKey) ==
    [ type |-> "imported", account |-> account, branch |-> 0, index |-> 0,
      encryptedPub |-> encPubKey, encryptedPriv |-> encPrivKey ]
ScriptAddressRow(account, encHash, encScript) ==
    [ type |-> "script", account |-> account, branch |-> 0, index |-> 0,
      encryptedPub |-> encHash, encryptedPriv |-> encScript ]

\* putChainedAddress, putImportedAddress, putScriptAddress
putAddress(db, hash, row) ==
    [db EXCEPT !.addresses = (hash :> row) @@ db.addresses]

\* existsAddress
existsAddress(db, hash) == hash \in DOMAIN db.addresses

\* putCryptoKeys: a nil argument leaves the stored key as it is.
putCryptoKeys(db, pubEnc, privEnc, scriptEnc) ==
    [db EXCEPT !.cryptoPub = IF pubEnc = Nil THEN @ ELSE pubEnc,
               !.cryptoPriv = IF privEnc = Nil THEN @ ELSE privEnc,
               !.cryptoScript = IF scriptEnc = Nil THEN @ ELSE scriptEnc]

\* putMasterKeyParams: a nil argument leaves the stored parameters.
putMasterKeyParams(db, pubParams, privParams) ==
    [db EXCEPT !.masterPub = IF pubParams = Nil THEN @ ELSE pubParams,
               !.masterPriv = IF privParams = Nil THEN @ ELSE privParams]

\* deletePrivateKeys: every private-tier ciphertext is removed.
deletePrivateKeys(db) ==
    [db EXCEPT !.masterPriv = Nil,
               !.cryptoPriv = Nil,
               !.cryptoScript = Nil,
               !.coinTypePriv = Nil,
               !.accounts = [a \in DOMAIN @ |->
                               [@[a] EXCEPT !.privKeyEncrypted = Nil]],
               !.addresses = [h \in DOMAIN @ |->
                               [@[h] EXCEPT !.encryptedPriv = Nil]]]

\* putWatchingOnly
putWatchingOnly(db, flag) == [db EXCEPT !.watchingOnly = flag]

\* createManagerNS: the empty buckets.
createManagerNS ==
    [ masterPub |-> Nil, masterPriv |-> Nil,
      cryptoPub |-> Nil, cryptoPriv |-> Nil, cryptoScript |-> Nil,
      coinTypePub |-> Nil, coinTypePriv |-> Nil,
      watchingOnly |-> FALSE,
      accounts |-> EmptyMap, acctNameIdx |-> EmptyMap,
      addresses |-> EmptyMap,
      lastAccount |-> DefaultAccountNum ]

\* The rows createAddressManager and createWatchOnly both write last.
putInitialAccounts(db, acctPubEnc, acctPrivEnc) ==
    putAccountInfo(
        putAccountInfo(db, ImportedAddrAccount,
            bip0044AccountInfo(Nil, Nil, 0, 0, 0, 0, ImportedAddrAccountName)),
        DefaultAccountNum,
        bip0044AccountInfo(acctPubEnc, acctPrivEnc, 0, 0, 0, 0,
                           defaultAccountName))

\* createAddressManager: a store of a seeded wallet.
createAddressManager(pubPassphrase, privPassphrase, saltPub, saltPriv) ==
    LET masterKeyPub == NewSecretKey(pubPassphrase, saltPub)
        masterKeyPriv == NewSecretKey(privPassphrase, saltPriv)
        acctKeyPriv == AcctKeyPriv(0)
        db1 == putMasterKeyParams(createManagerNS,
                   masterKeyPub.Parameters, masterKeyPriv.Parameters)
        db2 == putCryptoKeys(db1,
                   Encrypt(masterKeyPub.Key, CryptoKeyPub),
                   Encrypt(masterKeyPriv.Key, CryptoKeyPriv),
                   Encrypt(masterKeyPriv.Key, CryptoKeyScript))
        db3 == [db2 EXCEPT
                   !.coinTypePub = Encrypt(CryptoKeyPub,
                                           KeyString(CoinTypeKeyPub)),
                   !.coinTypePriv = Encrypt(CryptoKeyPriv,
                                            KeyString(CoinTypeKeyPriv))]
        db4 == putWatchingOnly(db3, FALSE)
    IN  putInitialAccounts(db4,
            Encrypt(CryptoKeyPub, KeyString(Neuter(acctKeyPriv))),
            Encrypt(CryptoKeyPriv, KeyString(acctKeyPriv)))

\* createWatchOnly: a store made from an account xpub alone.  The master
\* "private" key is derived from the public passphrase, and the account's
\* private slot holds the xpub sealed under the crypto private key.
createWatchOnly(pubPassphrase, saltPub, saltPriv) ==
    LET masterKeyPub == NewSecretKey(pubPassphrase, saltPub)
        masterKeyPriv == NewSecretKey(pubPassphrase, saltPriv)
        acctKeyPub == Neuter(AcctKeyPriv(0))
        db1 == putMasterKeyParams(createManagerNS,
                   masterKeyPub.Parameters, masterKeyPriv.Parameters)
        db2 == putCryptoKeys(db1,
                   Encrypt(masterKeyPub.Key, CryptoKeyPub),
                   Encrypt(masterKeyPriv.Key, CryptoKeyPriv),
                   Encrypt(masterKeyPriv.Key, CryptoKeyScript))
        db3 == putWatchingOnly(db2, TRUE)
    IN  putInitialAccounts(db3,
            Encrypt(CryptoKeyPub, KeyString(acctKeyPub)),
            Encrypt(CryptoKeyPriv, KeyString(acctKeyPub)))

---------------------------------------------------------------------------
(* The manager.                                                            *)

\* newManager that marks the manager unlocked.
newManagerUnlocked(masterKeyPub, masterKeyPriv, cryptoKeyPub, cryptoKeyPrivEncrypted, cryptoKeyScriptEncrypted, privPassphraseSalt) ==
    [ watchingOnly |-> FALSE,
      locked |-> FALSE,
      closed |-> FALSE,
      acctInfo |-> EmptyMap,
      masterKeyPub |-> masterKeyPub,
      masterKeyPriv |-> masterKeyPriv,
      cryptoKeyPub |-> cryptoKeyPub,
      cryptoKeyPrivEncrypted |-> cryptoKeyPrivEncrypted,
      cryptoKeyPriv |-> ZeroKey,
      cryptoKeyScriptEncrypted |-> cryptoKeyScriptEncrypted,
      cryptoKeyScript |-> ZeroKey,
      privPassphraseSalt |-> privPassphraseSalt,
      hashedPrivPassphrase |-> ZeroHash,
      returnedPrivKeys |-> EmptyMap,
      returnedScripts |-> EmptyMap ]

\* newManager: a locked manager with empty private crypto keys.
newManager(masterKeyPub, masterKeyPriv, cryptoKeyPub, cryptoKeyPrivEncrypted, cryptoKeyScriptEncrypted, privPassphraseSalt) ==
    [ watchingOnly |-> FALSE,
      locked |-> TRUE,
      closed |-> FALSE,
      acctInfo |-> EmptyMap,
      masterKeyPub |-> masterKeyPub,
      masterKeyPriv |-> masterKeyPriv,
      cryptoKeyPub |-> cryptoKeyPub,
      cryptoKeyPrivEncrypted |-> cryptoKeyPrivEncrypted,
      cryptoKeyPriv |-> ZeroKey,
      cryptoKeyScriptEncrypted |-> cryptoKeyScriptEncrypted,
      cryptoKeyScript |-> ZeroKey,
      privPassphraseSalt |-> privPassphraseSalt,
      hashedPrivPassphrase |-> ZeroHash,
      returnedPrivKeys |-> EmptyMap,
      returnedScripts |-> EmptyMap ]

\* loadManager: whether the public passphrase opens the store.
loadManagerOk(db, pubPassphrase) ==
    /\ DeriveKeyOk(Unmarshal(db.masterPub), pubPassphrase)
    /\ CanDecrypt(MasterKeyOf(pubPassphrase, db.masterPub[3]), db.cryptoPub)

\* loadManager: the manager opened from the store.
loadManager(db, pubPassphrase, privPassphraseSalt) ==
    LET masterKeyPriv == IF db.watchingOnly THEN ZeroValueSecretKey
                         ELSE Unmarshal(db.masterPriv)
        masterKeyPub == DeriveKey(Unmarshal(db.masterPub), pubPassphrase)
        mgr == newManager(masterKeyPub, masterKeyPriv,
                          Decrypt(masterKeyPub.Key, db.cryptoPub),
                          db.cryptoPriv, db.cryptoScript,
                          privPassphraseSalt)
    IN  [mgr EXCEPT !.watchingOnly = db.watchingOnly]

---------------------------------------------------------------------------
(* State.                                                                  *)

VARIABLES
    m,               \* the Manager's fields
    db,              \* the store (the manager's namespace)
    pc,              \* per thread: where its current call stands
    held,            \* per thread: the release handles it has not invoked
    secretsReaders,  \* read holds on returnedSecretsMu
    ret,             \* the call that just returned: operation and error
    privPw,          \* history: the private passphrase last set or used
    oldPw,           \* history: the one a private change last replaced by another
    sealed,          \* the caller's record of what Encrypt last gave it
    txn              \* the store transaction the caller has open, if any

vars == <<m, db, pc, held, secretsReaders, ret, privPw, oldPw, sealed, txn>>

Idle == [at |-> "idle", op |-> "", err |-> ""]
\* Blocked in returnedSecretsMu.Lock() inside lock(), holding mtx.
InLock(op, err) == [at |-> "lock", op |-> op, err |-> err]
\* Past the unlocked read of m.watchingOnly, before mtx.Lock().
Checked(op) == [at |-> "checked", op |-> op, err |-> ""]

\* No call has returned a result its caller has yet to take.
NoResult == [op |-> "", err |-> ""]

\* No store transaction is open beyond the one of the call under way.
NoTx == [open |-> FALSE, db |-> Nil]

\* Thread t is between calls.
Idling(t) == pc[t].at = "idle" /\ ret = NoResult

\* A mutex that excludes nobody.
MtxNeverHeld == TRUE

\* m.mtx is free: no thread is inside a handler, be it blocked in lock(),
\* running the callback of a ForEach call, inside a call that callback
\* made, or in the body of a handler after its RLock or Lock.
MtxFree == \A t \in Threads : pc[t].at \notin {"lock", "callback", "rlocked", "wlocked"} /\ (pc[t].at = "wait" => pc[t].outer = Idle)

\* A writer that does not wait for the readers.
WriterNeverWaits(readers) == TRUE

\* sync.RWMutex.Lock on returnedSecretsMu: the writer enters when no read
\* hold is left.
WriterMayEnter(readers) == readers = 0

\* sync.RWMutex.RLock / RUnlock on returnedSecretsMu.
RLock(readers) == readers + 1
\* A release that gives no read hold back.
RUnlockLost(readers) == readers
RUnlock(readers) == readers - 1

HeldCount(t) == Cardinality(held[t])

---------------------------------------------------------------------------
(* Manager.lock, in the two parts that returnedSecretsMu.Lock() separates. *)

\* lock() without its first loop: the account private keys stay.
lockAccountsSkipped(mgr) == mgr

\* Clear all of the account private keys.
lockAccounts(mgr) ==
    [mgr EXCEPT !.acctInfo =
        [a \in DOMAIN @ |-> [@[a] EXCEPT !.acctKeyPriv = NoKey]]]

\* Zero and drop the returned secrets, zero the private crypto keys, the
\* master private key and the passphrase hash, and mark the manager locked.
lockSecrets(mgr) ==
    [mgr EXCEPT !.returnedPrivKeys = EmptyMap,
                !.returnedScripts = EmptyMap,
                !.cryptoKeyScript = ZeroKey,
                !.cryptoKeyPriv = ZeroKey,
                !.masterKeyPriv = ZeroSecretKey(@),
                !.hashedPrivPassphrase = ZeroHash,
                !.locked = TRUE]

\* zeroSensitivePublicData
zeroSensitivePublicData(mgr) ==
    [mgr EXCEPT !.acctInfo =
                    [a \in DOMAIN @ |-> [@[a] EXCEPT !.acctKeyPub = NoKey]],
                !.cryptoKeyPub = ZeroKey,
                !.masterKeyPub = ZeroSecretKey(@)]

\* zeroSensitivePublicData dereferences every cached account's public key.
zeroPublicPanics(mgr) ==
    \E a \in DOMAIN mgr.acctInfo : mgr.acctInfo[a].acctKeyPub = NoKey

\* Close, after its lock(): zero the public data and mark the manager closed.
closeRest(mgr) ==
    IF zeroPublicPanics(mgr) THEN mgr
    ELSE [zeroSensitivePublicData(mgr) EXCEPT !.closed = TRUE]

\* ConvertToWatchingOnly that keeps the wrapped crypto keys in memory.
convertRestKeepsWrapped(mgr) ==
    [mgr EXCEPT !.acctInfo =
                    [a \in DOMAIN @ |-> [@[a] EXCEPT !.acctKeyEncrypted = Nil]],
                !.returnedPrivKeys = EmptyMap,
                !.returnedScripts = EmptyMap,
                !.cryptoKeyScript = NoKey,
                !.cryptoKeyPriv = NoKey,
                !.masterKeyPriv = NilSecretKey,
                !.watchingOnly = TRUE]

\* ConvertToWatchingOnly, after its lock(): drop the wrapped private keys.
convertRest(mgr) ==
    [mgr EXCEPT !.acctInfo =
                    [a \in DOMAIN @ |-> [@[a] EXCEPT !.acctKeyEncrypted = Nil]],
                !.returnedPrivKeys = EmptyMap,
                !.returnedScripts = EmptyMap,
                !.cryptoKeyScriptEncrypted = Nil,
                !.cryptoKeyScript = NoKey,
                !.cryptoKeyPrivEncrypted = Nil,
                !.cryptoKeyPriv = NoKey,
                !.masterKeyPriv = NilSecretKey,
                !.watchingOnly = TRUE]

\* What the caller of lock() does once lock() has returned.
afterLock(op, mgr) ==
    CASE op = "Close" -> closeRest(mgr)
      [] op = "ConvertToWatchingOnly" -> convertRest(mgr)
      [] OTHER -> mgr

\* The error the caller of lock() then returns.
afterLockErr(op, err, mgr) ==
    IF op = "Close" /\ zeroPublicPanics(mgr) THEN Panic ELSE err

\* A call returns to its caller.
Return(t, op, err) ==
    /\ ret' = [op |-> op, err |-> err]
    /\ pc' = [pc EXCEPT ![t] = Idle]

\* The call of thread t returns err and a value to its caller.
ReturnVal(t, op, err, val) ==
    /\ ret' = [op |-> op, err |-> err, val |-> val]
    /\ pc' = [pc EXCEPT ![t] = Idle]

\* A handler reaches m.lock() with the manager in state mgr: it clears the
\* account keys, then takes returnedSecretsMu for writing, at once when no
\* read hold is out and else after waiting for the holders.
EnterLock(t, op, err, mgr) ==
    LET m1 == lockAccounts(mgr) IN
    IF WriterMayEnter(secretsReaders)
    THEN /\ m' = afterLock(op, lockSecrets(m1))
         /\ Return(t, op, afterLockErr(op, err, m1))
    ELSE /\ m' = m1
         /\ pc' = [pc EXCEPT ![t] = InLock(op, err)]
         /\ UNCHANGED ret

\* The waiting writer is admitted: lock() zeroes the secrets and returns.
LockResume(t) ==
    /\ pc[t].at = "lock"
    /\ ret = NoResult
    /\ WriterMayEnter(secretsReaders)
    /\ m' = afterLock(pc[t].op, lockSecrets(m))
    /\ Return(t, pc[t].op, afterLockErr(pc[t].op, pc[t].err, m))
    /\ UNCHANGED <<db, held, secretsReaders, privPw, oldPw, sealed, txn>>

---------------------------------------------------------------------------
(* Lock, Unlock.                                                           *)

\* Lock without its watching-only check.
LockBodyUnchecked(t, woSeen) ==
    /\ MtxFree
    /\ IF m.locked
       THEN Return(t, "Lock", ErrLocked) /\ UNCHANGED m
       ELSE EnterLock(t, "Lock", ErrNone, m)
    /\ UNCHANGED <<db, held, secretsReaders, privPw, oldPw, sealed, txn>>

\* Lock, from m.mtx.Lock() on; woSeen is what its unlocked read of
\* m.watchingOnly returned.
LockBody(t, woSeen) ==
    /\ MtxFree
    /\ IF woSeen
       THEN Return(t, "Lock", ErrWatchingOnly) /\ UNCHANGED m
       ELSE IF m.locked
       THEN Return(t, "Lock", ErrLocked) /\ UNCHANGED m
       ELSE EnterLock(t, "Lock", ErrNone, m)
    /\ UNCHANGED <<db, held, secretsReaders, privPw, oldPw, sealed, txn>>

\* Whether Unlock opens and parses account a's wrapped private key under
\* the crypto private key.
acctKeyOpens(mgr, key, a) ==
    /\ CanDecrypt(key, mgr.acctInfo[a].acctKeyEncrypted)
    /\ IsKeyString(Decrypt(key, mgr.acctInfo[a].acctKeyEncrypted))

\* An Unlock that derives no account key.
unlockAccountsNone(mgr, key, done) == mgr

\* Unlock's loop over m.acctInfo: the accounts in done get their private
\* key (Go ranges over a map in no fixed order).
unlockAccounts(mgr, key, done) ==
    [mgr EXCEPT !.acctInfo = [a \in DOMAIN @ |->
        IF a \in done
        THEN [@[a] EXCEPT !.acctKeyPriv =
                 NewKeyFromString(
                     Decrypt(key, mgr.acctInfo[a].acctKeyEncrypted))]
        ELSE @[a]]]

\* Unlock with its failure path cut short: the error is returned and the
\* keys unwrapped so far stay as they are.
unlockFailKeepsKeys(t, err, mgr) ==
    m' = mgr /\ Return(t, "Unlock", err)

\* Unlock's failure path: m.lock(), then the error.
unlockFail(t, err, mgr) == EnterLock(t, "Unlock", err, mgr)

\* The failures a cryptographic step of Unlock may report besides a wrong
\* passphrase (the EncryptorDecryptor of the tests forces them).
UnlockFaults == {"none", "cryptoPriv", "acctDecrypt", "acctParse"}

\* Unlock on a locked manager, from m.masterKeyPriv.DeriveKey on.
UnlockLocked(t, passphrase, fault) ==
    IF m.masterKeyPriv = NilSecretKey
    THEN Return(t, "Unlock", Panic) /\ UNCHANGED <<m, privPw, oldPw, sealed, txn>>
    ELSE
    LET mk == DeriveKey(m.masterKeyPriv, passphrase)
        m1 == [m EXCEPT !.masterKeyPriv = mk]
        ckey == Decrypt(mk.Key, m.cryptoKeyPrivEncrypted)
        m2 == [m1 EXCEPT !.cryptoKeyPriv = ckey]
        accts == DOMAIN m.acctInfo
        bad == { a \in accts : ~acctKeyOpens(m2, ckey, a) }
    IN  IF ~DeriveKeyOk(m.masterKeyPriv, passphrase)
        THEN unlockFail(t, ErrWrongPassphrase, m1) /\ UNCHANGED <<privPw, oldPw, sealed, txn>>
        ELSE IF fault = "cryptoPriv"
                \/ ~CanDecrypt(mk.Key, m.cryptoKeyPrivEncrypted)
        THEN unlockFail(t, ErrCrypto, m1) /\ UNCHANGED <<privPw, oldPw, sealed, txn>>
        ELSE IF fault \in {"acctDecrypt", "acctParse"} /\ accts # {}
        THEN /\ \E a \in accts : \E done \in SUBSET (accts \ (bad \cup {a})) :
                    unlockFail(t, IF fault = "acctDecrypt"
                                  THEN ErrCrypto ELSE ErrKeyChain,
                               unlockAccounts(m2, ckey, done))
             /\ UNCHANGED <<privPw, oldPw, sealed, txn>>
        ELSE IF bad # {}
        THEN /\ \E a \in bad : \E done \in SUBSET (accts \ bad) :
                    unlockFail(t, IF CanDecrypt(ckey,
                                         m.acctInfo[a].acctKeyEncrypted)
                                  THEN ErrKeyChain ELSE ErrCrypto,
                               unlockAccounts(m2, ckey, done))
             /\ UNCHANGED <<privPw, oldPw, sealed, txn>>
        ELSE /\ m' = [unlockAccounts(m2, ckey, accts) EXCEPT
                        !.locked = FALSE,
                        !.hashedPrivPassphrase =
                            HashPassphrase(m.privPassphraseSalt, passphrase)]
             /\ privPw' = passphrase
             /\ UNCHANGED <<oldPw, sealed, txn>>
             /\ Return(t, "Unlock", ErrNone)

\* Unlock, from m.mtx.Lock() on.
UnlockBody(t, woSeen, passphrase, fault) ==
    /\ MtxFree
    /\ IF woSeen
       THEN Return(t, "Unlock", ErrWatchingOnly) /\ UNCHANGED <<m, privPw, oldPw, sealed, txn>>
       ELSE IF ~m.locked
       THEN IF HashPassphrase(m.privPassphraseSalt, passphrase)
                 # m.hashedPrivPassphrase
            THEN unlockFail(t, ErrWrongPassphrase, m) /\ UNCHANGED <<privPw, oldPw, sealed, txn>>
            ELSE Return(t, "Unlock", ErrNone) /\ UNCHANGED <<m, privPw, oldPw, sealed, txn>>
       ELSE UnlockLocked(t, passphrase, fault)
    /\ UNCHANGED <<db, held, secretsReaders>>

---------------------------------------------------------------------------
(* ChangePassphrase.                                                       *)

\* The failures ChangePassphrase may meet before its store writes: the
\* replaced newSecretKey of the tests, the random source, a re-wrapping.
ChangeFaults == {"none", "newSecretKey", "rewrap"}

\* A private ChangePassphrase that writes the store and leaves the
\* manager's master private key as it was.
changePrivateKeepsMaster(t, secretKey, newPassphrase, kdfSalt, passphraseSalt) ==
    LET newMasterKey == NewSecretKey(newPassphrase, kdfSalt)
        encPriv == Encrypt(newMasterKey.Key,
                       Decrypt(secretKey.Key, m.cryptoKeyPrivEncrypted))
        encScript == Encrypt(newMasterKey.Key,
                       Decrypt(secretKey.Key, m.cryptoKeyScriptEncrypted))
    IN  /\ db' = putMasterKeyParams(putCryptoKeys(db, Nil, encPriv, encScript),
                                    Nil, newMasterKey.Parameters)
        /\ m' = [m EXCEPT !.cryptoKeyPrivEncrypted = encPriv,
                          !.cryptoKeyScriptEncrypted = encScript]
        /\ privPw' = newPassphrase
        /\ oldPw' = IF newPassphrase # privPw THEN privPw ELSE oldPw
        /\ UNCHANGED <<sealed, txn>>
        /\ Return(t, "ChangePassphrase", ErrNone)

\* A private ChangePassphrase that wraps a new crypto private key instead
\* of the one the store was created with.
changePrivateRekeys(t, secretKey, newPassphrase, kdfSalt, passphraseSalt) ==
    LET newMasterKey == NewSecretKey(newPassphrase, kdfSalt)
        encPriv == Encrypt(newMasterKey.Key, <<"ck", "priv", newPassphrase>>)
        encScript == Encrypt(newMasterKey.Key,
                       Decrypt(secretKey.Key, m.cryptoKeyScriptEncrypted))
    IN  /\ db' = putMasterKeyParams(putCryptoKeys(db, Nil, encPriv, encScript),
                                    Nil, newMasterKey.Parameters)
        /\ m' = [m EXCEPT
                   !.cryptoKeyPrivEncrypted = encPriv,
                   !.cryptoKeyScriptEncrypted = encScript,
                   !.masterKeyPriv = IF m.locked
                                     THEN ZeroSecretKey(newMasterKey)
                                     ELSE newMasterKey,
                   !.privPassphraseSalt = passphraseSalt,
                   !.hashedPrivPassphrase =
                       IF m.locked THEN ZeroHash
                       ELSE HashPassphrase(passphraseSalt, newPassphrase)]
        /\ privPw' = newPassphrase
        /\ oldPw' = IF newPassphrase # privPw THEN privPw ELSE oldPw
        /\ UNCHANGED <<sealed, txn>>
        /\ Return(t, "ChangePassphrase", ErrNone)

\* ChangePassphrase(private = true), after the old passphrase was verified
\* on the copy secretKey: the re-wrapped keys go to the store, then the
\* manager takes the new master key, salt and passphrase hash.
changePrivate(t, secretKey, newPassphrase, kdfSalt, passphraseSalt) ==
    LET newMasterKey == NewSecretKey(newPassphrase, kdfSalt)
        encPriv == Encrypt(newMasterKey.Key,
                       Decrypt(secretKey.Key, m.cryptoKeyPrivEncrypted))
        encScript == Encrypt(newMasterKey.Key,
                       Decrypt(secretKey.Key, m.cryptoKeyScriptEncrypted))
    IN  /\ db' = putMasterKeyParams(putCryptoKeys(db, Nil, encPriv, encScript),
                                    Nil, newMasterKey.Parameters)
        /\ m' = [m EXCEPT
                   !.cryptoKeyPrivEncrypted = encPriv,
                   !.cryptoKeyScriptEncrypted = encScript,
                   !.masterKeyPriv = IF m.locked
                                     THEN ZeroSecretKey(newMasterKey)
                                     ELSE newMasterKey,
                   !.privPassphraseSalt = passphraseSalt,
                   !.hashedPrivPassphrase =
                       IF m.locked THEN ZeroHash
                       ELSE HashPassphrase(passphraseSalt, newPassphrase)]
        /\ privPw' = newPassphrase
        /\ oldPw' = IF newPassphrase # privPw THEN privPw ELSE oldPw
        /\ UNCHANGED <<sealed, txn>>
        /\ Return(t, "ChangePassphrase", ErrNone)

\* ChangePassphrase(private = false): the crypto public key is re-wrapped.
changePublic(t, newPassphrase, kdfSalt) ==
    LET newMasterKey == NewSecretKey(newPassphrase, kdfSalt)
        encryptedPub == Encrypt(newMasterKey.Key, m.cryptoKeyPub)
    IN  /\ db' = putMasterKeyParams(putCryptoKeys(db, encryptedPub, Nil, Nil),
                                    newMasterKey.Parameters, Nil)
        /\ m' = [m EXCEPT !.masterKeyPub = newMasterKey]
        /\ UNCHANGED <<privPw, oldPw, sealed, txn>>
        /\ Return(t, "ChangePassphrase", ErrNone)

\* A ChangePassphrase that verifies the old passphrase on the live master
\* key: the key it derived stays there when the call fails.
ChangePassphraseOnLive(t, woSeen, oldPassphrase, newPassphrase, private, fault, kdfSalt, passphraseSalt) ==
    LET live == IF private THEN m.masterKeyPriv ELSE m.masterKeyPub
        secretKey == DeriveKey(live, oldPassphrase)
        Fail(err) == /\ Return(t, "ChangePassphrase", err)
                     /\ m' = IF private
                             THEN [m EXCEPT !.masterKeyPriv = secretKey]
                             ELSE [m EXCEPT !.masterKeyPub = secretKey]
                     /\ UNCHANGED <<db, privPw, oldPw, sealed, txn>>
    IN
    /\ MtxFree
    /\ IF private /\ woSeen
       THEN Return(t, "ChangePassphrase", ErrWatchingOnly)
            /\ UNCHANGED <<m, db, privPw, oldPw, sealed, txn>>
       ELSE IF live = NilSecretKey
       THEN Return(t, "ChangePassphrase", Panic)
            /\ UNCHANGED <<m, db, privPw, oldPw, sealed, txn>>
       ELSE IF ~DeriveKeyOk(live, oldPassphrase) THEN Fail(ErrWrongPassphrase)
       ELSE IF fault = "newSecretKey" THEN Fail(ErrCrypto)
       ELSE IF private
       THEN IF \/ fault = "rewrap"
               \/ ~CanDecrypt(secretKey.Key, m.cryptoKeyPrivEncrypted)
               \/ ~CanDecrypt(secretKey.Key, m.cryptoKeyScriptEncrypted)
            THEN Fail(ErrCrypto)
            ELSE changePrivate(t, secretKey, newPassphrase, kdfSalt,
                               passphraseSalt)
       ELSE IF fault = "rewrap" THEN Fail(ErrCrypto)
       ELSE changePublic(t, newPassphrase, kdfSalt)
    /\ UNCHANGED <<held, secretsReaders>>

\* ChangePassphrase, from m.mtx.Lock() on.
ChangePassphraseBody(t, woSeen, oldPassphrase, newPassphrase, private, fault, kdfSalt, passphraseSalt) ==
    LET live == IF private THEN m.masterKeyPriv ELSE m.masterKeyPub
        secretKey == DeriveKey(live, oldPassphrase)
        Fail(err) == /\ Return(t, "ChangePassphrase", err)
                     /\ UNCHANGED <<m, db, privPw, oldPw, sealed, txn>>
    IN
    /\ MtxFree
    /\ IF private /\ woSeen THEN Fail(ErrWatchingOnly)
       ELSE IF live = NilSecretKey THEN Fail(Panic)
       ELSE IF ~DeriveKeyOk(live, oldPassphrase) THEN Fail(ErrWrongPassphrase)
       ELSE IF fault = "newSecretKey" THEN Fail(ErrCrypto)
       ELSE IF private
       THEN IF \/ fault = "rewrap"
               \/ ~CanDecrypt(secretKey.Key, m.cryptoKeyPrivEncrypted)
               \/ ~CanDecrypt(secretKey.Key, m.cryptoKeyScriptEncrypted)
            THEN Fail(ErrCrypto)
            ELSE changePrivate(t, secretKey, newPassphrase, kdfSalt,
                               passphraseSalt)
       ELSE IF fault = "rewrap" THEN Fail(ErrCrypto)
       ELSE changePublic(t, newPassphrase, kdfSalt)
    /\ UNCHANGED <<held, secretsReaders>>

---------------------------------------------------------------------------
(* ConvertToWatchingOnly, Close.                                           *)

\* ConvertToWatchingOnly, from the check of m.watchingOnly on, m.mtx held.
ConvertToWatchingOnlyBody(t) ==
    /\ IF m.watchingOnly
       THEN Return(t, "ConvertToWatchingOnly", ErrNone) /\ UNCHANGED <<m, db>>
       ELSE /\ db' = putWatchingOnly(deletePrivateKeys(db), TRUE)
            /\ IF ~m.locked
               THEN EnterLock(t, "ConvertToWatchingOnly", ErrNone, m)
               ELSE /\ m' = convertRest(m)
                    /\ Return(t, "ConvertToWatchingOnly", ErrNone)
    /\ UNCHANGED <<held, secretsReaders, privPw, oldPw, sealed, txn>>

\* ConvertToWatchingOnly
ConvertToWatchingOnly(t) ==
    /\ Idling(t)
    /\ MtxFree
    /\ ConvertToWatchingOnlyBody(t)

\* Close
Close(t) ==
    /\ Idling(t)
    /\ MtxFree
    /\ IF ~m.watchingOnly /\ ~m.locked
       THEN EnterLock(t, "Close", ErrNone, m)
       ELSE /\ m' = closeRest(m)
            /\ Return(t, "Close", afterLockErr("Close", ErrNone, m))
    /\ UNCHANGED <<db, held, secretsReaders, privPw, oldPw, sealed, txn>>

---------------------------------------------------------------------------
(* Accounts.                                                               *)

\* The error of loadAccountInfo, ErrNone when it returns the account.
loadAccountInfoErr(mgr, store, account) ==
    IF account \in DOMAIN mgr.acctInfo THEN ErrNone
    ELSE IF account \notin DOMAIN store.accounts THEN ErrNotFound
    ELSE LET row == store.accounts[account] IN
         IF ~CanDecrypt(mgr.cryptoKeyPub, row.pubKeyEncrypted) THEN ErrCrypto
         ELSE IF ~IsKeyString(Decrypt(mgr.cryptoKeyPub, row.pubKeyEncrypted))
         THEN ErrKeyChain
         ELSE IF mgr.locked THEN ErrNone
         ELSE IF mgr.cryptoKeyPriv = NoKey THEN Panic
         ELSE IF ~CanDecrypt(mgr.cryptoKeyPriv, row.privKeyEncrypted)
         THEN ErrCrypto
         ELSE IF ~IsKeyString(Decrypt(mgr.cryptoKeyPriv, row.privKeyEncrypted))
         THEN ErrKeyChain
         ELSE ErrNone

\* The manager after a loadAccountInfo that returned the account: the
\* account is in the cache, with its private key when the manager is unlocked.
loadAccountInfo(mgr, store, account) ==
    IF account \in DOMAIN mgr.acctInfo THEN mgr
    ELSE LET row == store.accounts[account]
             info == [ acctName |-> row.name,
                       acctKeyEncrypted |-> row.privKeyEncrypted,
                       acctKeyPriv |->
                           IF mgr.locked THEN NoKey
                           ELSE NewKeyFromString(
                                    Decrypt(mgr.cryptoKeyPriv,
                                            row.privKeyEncrypted)),
                       acctKeyPub |->
                           NewKeyFromString(
                               Decrypt(mgr.cryptoKeyPub, row.pubKeyEncrypted)) ]
         IN  [mgr EXCEPT !.acctInfo = (account :> info) @@ @]

\* AccountExtendedPubKey
AccountExtendedPubKey(t, account) ==
    /\ Idling(t)
    /\ MtxFree
    /\ IF account = ImportedAddrAccount
       THEN Return(t, "AccountExtendedPubKey", ErrInvalidAccount)
            /\ UNCHANGED m
       ELSE IF loadAccountInfoErr(m, db, account) # ErrNone
       THEN Return(t, "AccountExtendedPubKey",
                   loadAccountInfoErr(m, db, account)) /\ UNCHANGED m
       ELSE /\ m' = loadAccountInfo(m, db, account)
            /\ Return(t, "AccountExtendedPubKey", ErrNone)
    /\ UNCHANGED <<db, held, secretsReaders, privPw, oldPw, sealed, txn>>

\* isReservedAccountName
isReservedAccountName(name) == name = ImportedAddrAccountName

\* A validation that accepts every name.
ValidateNothing(name) == ErrNone

\* ValidateAccountName: the error, ErrNone for a valid name.
ValidateAccountName(name) ==
    IF name = "" THEN ErrInvalidAccount
    ELSE IF isReservedAccountName(name) THEN ErrInvalidAccount
    ELSE ErrNone

\* ^uint32(0)
NoIndex == 2 ^ WordBits - 1

\* A NewAccount that writes the account row and leaves last_account as it
\* was.
NewAccountKeepsLast(t, woSeen, name) ==
    LET account == (db.lastAccount + 1) % (2 ^ WordBits)
        acctKeyPriv == AcctKeyPriv(account)
        row == bip0044AccountInfo(
                   Encrypt(m.cryptoKeyPub, KeyString(Neuter(acctKeyPriv))),
                   Encrypt(m.cryptoKeyPriv, KeyString(acctKeyPriv)),
                   NoIndex, NoIndex, 0, 0, name)
    IN
    /\ MtxFree
    /\ IF woSeen \/ m.locked \/ ValidateAccountName(name) # ErrNone
          \/ name \in DOMAIN db.acctNameIdx \/ account > MaxAccountNum
       THEN Return(t, "NewAccount", ErrLocked) /\ UNCHANGED db
       ELSE /\ db' = putAccountInfo(db, account, row)
            /\ Return(t, "NewAccount", ErrNone)
    /\ UNCHANGED <<m, held, secretsReaders, privPw, oldPw, sealed, txn>>

\* NewAccount, from m.mtx.Lock() on.
NewAccountBody(t, woSeen, name) ==
    LET account == (db.lastAccount + 1) % (2 ^ WordBits)
        Fail(err) == Return(t, "NewAccount", err) /\ UNCHANGED db
        coinTypeKeyPriv ==
            NewKeyFromString(Decrypt(m.cryptoKeyPriv, db.coinTypePriv))
        acctKeyPriv == AcctKeyPriv(account)
        row == bip0044AccountInfo(
                   Encrypt(m.cryptoKeyPub, KeyString(Neuter(acctKeyPriv))),
                   Encrypt(m.cryptoKeyPriv, KeyString(acctKeyPriv)),
                   NoIndex, NoIndex, 0, 0, name)
    IN
    /\ MtxFree
    /\ IF woSeen THEN Fail(ErrWatchingOnly)
       ELSE IF m.locked THEN Fail(ErrLocked)
       ELSE IF ValidateAccountName(name) # ErrNone
       THEN Fail(ValidateAccountName(name))
       ELSE IF name \in DOMAIN db.acctNameIdx THEN Fail(ErrDuplicateAccount)
       ELSE IF ~CanDecrypt(m.cryptoKeyPriv, db.coinTypePriv)
       THEN Fail(ErrLocked)
       ELSE IF coinTypeKeyPriv # CoinTypeKeyPriv THEN Fail(ErrKeyChain)
       ELSE IF account > MaxAccountNum THEN Fail(ErrKeyChain)
       ELSE /\ db' = [putAccountInfo(db, account, row)
                         EXCEPT !.lastAccount = account]
            /\ Return(t, "NewAccount", ErrNone)
    /\ UNCHANGED <<m, held, secretsReaders, privPw, oldPw, sealed, txn>>

\* deleteAccountNameIndex
deleteAccountNameIndex(store, name) ==
    [store EXCEPT !.acctNameIdx =
        [n \in DOMAIN @ \ {name} |-> @[n]]]

\* RenameAccount without its check of the reserved account number.
RenameAccountUnchecked(t, account, name) ==
    LET Fail(err) == Return(t, "RenameAccount", err) /\ UNCHANGED <<m, db>>
    IN
    /\ Idling(t)
    /\ MtxFree
    /\ IF name \in DOMAIN db.acctNameIdx THEN Fail(ErrDuplicateAccount)
       ELSE IF ValidateAccountName(name) # ErrNone
       THEN Fail(ValidateAccountName(name))
       ELSE IF account \notin DOMAIN db.accounts THEN Fail(ErrNotFound)
       ELSE /\ db' = putAccountInfo(
                         deleteAccountNameIndex(db, db.accounts[account].name),
                         account, [db.accounts[account] EXCEPT !.name = name])
            /\ m' = IF account \in DOMAIN m.acctInfo
                    THEN [m EXCEPT !.acctInfo[account].acctName = name]
                    ELSE m
            /\ Return(t, "RenameAccount", ErrNone)
    /\ UNCHANGED <<held, secretsReaders, privPw, oldPw, sealed, txn>>

\* RenameAccount
RenameAccount(t, account, name) ==
    LET Fail(err) == Return(t, "RenameAccount", err) /\ UNCHANGED <<m, db>>
    IN
    /\ Idling(t)
    /\ MtxFree
    /\ IF account = ImportedAddrAccount THEN Fail(ErrInvalidAccount)
       ELSE IF name \in DOMAIN db.acctNameIdx THEN Fail(ErrDuplicateAccount)
       ELSE IF ValidateAccountName(name) # ErrNone
       THEN Fail(ValidateAccountName(name))
       ELSE IF account \notin DOMAIN db.accounts THEN Fail(ErrNotFound)
       ELSE /\ db' = putAccountInfo(
                         deleteAccountNameIndex(db, db.accounts[account].name),
                         account, [db.accounts[account] EXCEPT !.name = name])
            /\ m' = IF account \in DOMAIN m.acctInfo
                    THEN [m EXCEPT !.acctInfo[account].acctName = name]
                    ELSE m
            /\ Return(t, "RenameAccount", ErrNone)
    /\ UNCHANGED <<held, secretsReaders, privPw, oldPw, sealed, txn>>

\* The paths at which the child derivation of the wallet's seed fails with
\* hdkeychain.ErrInvalidChild.
InvalidChildren == { <<DefaultAccountNum, InternalBranch, 1>> }

\* The loop of syncAccountToAddrIndex with every row put under the default
\* account.
RECURSIVE syncChildrenDefault(_, _, _, _)
syncChildrenDefault(store, account, branch, child) ==
    LET hash == PubKeyHash(ChildKey(account, branch, child)) IN
    IF child >= HardenedKeyStart THEN [db |-> store, err |-> ErrKeyChain]
    ELSE IF existsAddress(store, hash) THEN [db |-> store, err |-> ErrNone]
    ELSE LET put == putAddress(store, hash,
                        ChainAddressRow(DefaultAccountNum, branch, child))
         IN  IF child = 0 THEN [db |-> put, err |-> ErrNone]
             ELSE syncChildrenDefault(put, account, branch, child - 1)

\* The loop of syncAccountToAddrIndex, from index child down: an invalid
\* child is skipped, the loop ends at the first address found in the
\* store or after child 0, and every other child is stored.  The index is
\* a uint32: below 0 it wraps, and a hardened child of an xpub does not
\* derive.  invalid holds the paths whose derivation fails with
\* hdkeychain.ErrInvalidChild, visited the indexes the loop derived, in
\* the order it derived them.
RECURSIVE syncLoop(_, _, _, _, _)
syncLoop(invalid, store, account, branch, child) ==
    LET hash == PubKeyHash(ChildKey(account, branch, child))
        Visit(r) == [r EXCEPT !.visited = <<child>> \o @]
    IN
    IF child >= HardenedKeyStart
    THEN [db |-> store, err |-> ErrKeyChain, visited |-> <<child>>]
    ELSE IF <<account, branch, child>> \in invalid
    THEN Visit(syncLoop(invalid, store, account, branch,
                        (child - 1) % (2 ^ WordBits)))
    ELSE IF existsAddress(store, hash)
    THEN [db |-> store, err |-> ErrNone, visited |-> <<child>>]
    ELSE LET put == putAddress(store, hash,
                               ChainAddressRow(account, branch, child))
         IN  IF child = 0
             THEN [db |-> put, err |-> ErrNone, visited |-> <<child>>]
             ELSE Visit(syncLoop(invalid, put, account, branch, child - 1))

\* The loop for the keys of the model, whose invalid children are
\* InvalidChildren.
syncChildren(store, account, branch, child) ==
    syncLoop(InvalidChildren, store, account, branch, child)

\* SyncAccountToAddrIndex without the checks of the branch and of the index.
SyncAccountToAddrIndexUnchecked(t, account, syncToIndex, branch) ==
    LET Fail(err) == Return(t, "SyncAccountToAddrIndex", err)
                     /\ UNCHANGED <<m, db>>
        synced == syncChildren(db, account, branch, syncToIndex)
    IN
    /\ Idling(t)
    /\ MtxFree
    /\ IF account > MaxAccountNum THEN Fail(ErrAccountNumTooHigh)
       ELSE IF account = ImportedAddrAccount THEN Fail(ErrInvalidAccount)
       ELSE IF loadAccountInfoErr(m, db, account) # ErrNone
       THEN Fail(loadAccountInfoErr(m, db, account))
       ELSE /\ m' = loadAccountInfo(m, db, account)
            /\ db' = synced.db
            /\ Return(t, "SyncAccountToAddrIndex", synced.err)
    /\ UNCHANGED <<held, secretsReaders, privPw, oldPw, sealed, txn>>

\* SyncAccountToAddrIndex
SyncAccountToAddrIndex(t, account, syncToIndex, branch) ==
    LET Fail(err) == Return(t, "SyncAccountToAddrIndex", err)
                     /\ UNCHANGED <<m, db>>
        m1 == loadAccountInfo(m, db, account)
        synced == syncChildren(db, account, branch, syncToIndex)
    IN
    /\ Idling(t)
    /\ MtxFree
    /\ IF account > MaxAccountNum THEN Fail(ErrAccountNumTooHigh)
       ELSE IF account = ImportedAddrAccount THEN Fail(ErrInvalidAccount)
       ELSE IF loadAccountInfoErr(m, db, account) # ErrNone
       THEN Fail(loadAccountInfoErr(m, db, account))
       ELSE /\ m' = m1
            /\ IF branch \notin {ExternalBranch, InternalBranch}
               THEN Return(t, "SyncAccountToAddrIndex", ErrBranch)
                    /\ UNCHANGED db
               ELSE IF ~m.locked /\ m1.acctInfo[account].acctKeyPriv = NoKey
               THEN Return(t, "SyncAccountToAddrIndex", Panic)
                    /\ UNCHANGED db
               ELSE IF syncToIndex > MaxAddressesPerAccount
               THEN Return(t, "SyncAccountToAddrIndex", ErrTooManyAddresses)
                    /\ UNCHANGED db
               ELSE /\ db' = synced.db
                    /\ Return(t, "SyncAccountToAddrIndex", synced.err)
    /\ UNCHANGED <<held, secretsReaders, privPw, oldPw, sealed, txn>>

---------------------------------------------------------------------------
(* Address usage: the last used and last returned child of each branch.    *)

\* uint32 addition and subtraction of one.
Inc(x) == (x + 1) % (2 ^ WordBits)
Dec(x) == (x - 1) % (2 ^ WordBits)

maxUint32(a, b) == IF a > b THEN a ELSE b

\* putAccountRow: the account row alone.
putAccountRow(store, account, row) ==
    [store EXCEPT !.accounts = (account :> row) @@ @]

\* MarkUsedChildIndex that leaves the last returned indexes as they are.
markUsedKeepsReturned(store, account, branch, child) ==
    IF account \notin DOMAIN store.accounts
    THEN [db |-> store, err |-> ErrNotFound]
    ELSE IF branch \notin {ExternalBranch, InternalBranch}
    THEN [db |-> store, err |-> ErrBranch]
    ELSE LET row == store.accounts[account]
             old == IF branch = ExternalBranch THEN row.lastUsedExternalIndex
                    ELSE row.lastUsedInternalIndex
         IN  IF Inc(child) < Inc(old) THEN [db |-> store, err |-> ErrNone]
             ELSE [db |-> putAccountRow(store, account,
                              IF branch = ExternalBranch
                              THEN [row EXCEPT !.lastUsedExternalIndex = child]
                              ELSE [row EXCEPT !.lastUsedInternalIndex = child]),
                   err |-> ErrNone]

\* MarkReturnedChildIndex that writes the child on its branch and sets the
\* other branch's last returned index back to its last used one.
markReturnedResetsOther(store, account, branch, child) ==
    IF account \notin DOMAIN store.accounts
    THEN [db |-> store, err |-> ErrNotFound]
    ELSE IF branch \notin {ExternalBranch, InternalBranch}
    THEN [db |-> store, err |-> ErrBranch]
    ELSE LET row == store.accounts[account] IN
         [db |-> putAccountRow(store, account,
                     IF branch = ExternalBranch
                     THEN [row EXCEPT
                             !.lastReturnedExternalIndex = child,
                             !.lastReturnedInternalIndex =
                                 row.lastUsedInternalIndex]
                     ELSE [row EXCEPT
                             !.lastReturnedInternalIndex = child,
                             !.lastReturnedExternalIndex =
                                 row.lastUsedExternalIndex]),
          err |-> ErrNone]

\* MarkReturnedChildIndex that writes the index whatever the stored one.
markReturnedUnguarded(store, account, branch, child) ==
    IF account \notin DOMAIN store.accounts
    THEN [db |-> store, err |-> ErrNotFound]
    ELSE IF branch \notin {ExternalBranch, InternalBranch}
    THEN [db |-> store, err |-> ErrBranch]
    ELSE LET row == store.accounts[account] IN
         [db |-> putAccountRow(store, account,
                     IF branch = ExternalBranch
                     THEN [row EXCEPT !.lastReturnedExternalIndex = child]
                     ELSE [row EXCEPT !.lastReturnedInternalIndex = child]),
          err |-> ErrNone]

\* MarkUsed that marks the first child of the branch of a chained address.
markUsedFirst(store, addr) ==
    IF ~existsAddress(store, addr) THEN [db |-> store, err |-> ErrNotFound]
    ELSE LET a == store.addresses[addr] IN
         IF a.type # "chain" THEN [db |-> store, err |-> ErrNone]
         ELSE LET row == store.accounts[a.account] IN
              [db |-> putAccountRow(store, a.account,
                          IF a.branch = ExternalBranch
                          THEN [row EXCEPT !.lastUsedExternalIndex = 0]
                          ELSE [row EXCEPT !.lastUsedInternalIndex = 0]),
               err |-> ErrNone]

\* MarkUsed: the usage of the account of a chained address; no effect for
\* an imported key or script.
markUsed(store, addr) ==
    IF ~existsAddress(store, addr) THEN [db |-> store, err |-> ErrNotFound]
    ELSE LET a == store.addresses[addr] IN
         IF a.type # "chain" THEN [db |-> store, err |-> ErrNone]
         ELSE IF a.account \notin DOMAIN store.accounts
         THEN [db |-> store, err |-> ErrNotFound]
         ELSE LET row == store.accounts[a.account]
                  lastUsedExtIndex == IF a.branch = ExternalBranch THEN a.index
                                      ELSE row.lastUsedExternalIndex
                  lastUsedIntIndex == IF a.branch = InternalBranch THEN a.index
                                      ELSE row.lastUsedInternalIndex
                  lastRetExtIndex ==
                      Dec(maxUint32(Inc(lastUsedExtIndex),
                                    Inc(row.lastReturnedExternalIndex)))
                  lastRetIntIndex ==
                      Dec(maxUint32(Inc(lastUsedIntIndex),
                                    Inc(row.lastReturnedInternalIndex)))
              IN  IF a.branch \notin {ExternalBranch, InternalBranch}
                  THEN [db |-> store, err |-> ErrData]
                  ELSE IF \/ Inc(lastUsedExtIndex)
                                < Inc(row.lastUsedExternalIndex)
                          \/ Inc(lastUsedIntIndex)
                                < Inc(row.lastUsedInternalIndex)
                  THEN [db |-> store, err |-> ErrNone]
                  ELSE [db |-> putAccountRow(store, a.account,
                                   bip0044AccountInfo(
                                       row.pubKeyEncrypted,
                                       row.privKeyEncrypted,
                                       lastUsedExtIndex, lastUsedIntIndex,
                                       lastRetExtIndex, lastRetIntIndex,
                                       row.name)),
                        err |-> ErrNone]

\* MarkUsed reads and writes the store only; it does not take m.mtx.
MarkUsed(t, addr) ==
    /\ Idling(t)
    /\ db' = markUsed(db, addr).db
    /\ Return(t, "MarkUsed", markUsed(db, addr).err)
    /\ UNCHANGED <<m, held, secretsReaders, privPw, oldPw, sealed, txn>>

\* MarkUsedChildIndex
markUsedChildIndex(store, account, branch, child) ==
    IF account \notin DOMAIN store.accounts
    THEN [db |-> store, err |-> ErrNotFound]
    ELSE LET row == store.accounts[account]
             lastUsedExtIndex == IF branch = ExternalBranch THEN child
                                 ELSE row.lastUsedExternalIndex
             lastUsedIntIndex == IF branch = InternalBranch THEN child
                                 ELSE row.lastUsedInternalIndex
             lastRetExtIndex ==
                 Dec(maxUint32(Inc(lastUsedExtIndex),
                               Inc(row.lastReturnedExternalIndex)))
             lastRetIntIndex ==
                 Dec(maxUint32(Inc(lastUsedIntIndex),
                               Inc(row.lastReturnedInternalIndex)))
         IN  IF branch \notin {ExternalBranch, InternalBranch}
             THEN [db |-> store, err |-> ErrBranch]
             ELSE IF \/ Inc(lastUsedExtIndex) < Inc(row.lastUsedExternalIndex)
                     \/ Inc(lastUsedIntIndex) < Inc(row.lastUsedInternalIndex)
             THEN [db |-> store, err |-> ErrNone]
             ELSE [db |-> putAccountRow(store, account,
                              bip0044AccountInfo(
                                  row.pubKeyEncrypted, row.privKeyEncrypted,
                                  lastUsedExtIndex, lastUsedIntIndex,
                                  lastRetExtIndex, lastRetIntIndex, row.name)),
                   err |-> ErrNone]

MarkUsedChildIndex(t, account, branch, child) ==
    /\ Idling(t)
    /\ db' = markUsedChildIndex(db, account, branch, child).db
    /\ Return(t, "MarkUsedChildIndex",
              markUsedChildIndex(db, account, branch, child).err)
    /\ UNCHANGED <<m, held, secretsReaders, privPw, oldPw, sealed, txn>>

\* MarkReturnedChildIndex
markReturnedChildIndex(store, account, branch, child) ==
    IF account \notin DOMAIN store.accounts
    THEN [db |-> store, err |-> ErrNotFound]
    ELSE LET row == store.accounts[account]
             lastRetExtIndex == IF branch = ExternalBranch THEN child
                                ELSE row.lastReturnedExternalIndex
             lastRetIntIndex == IF branch = InternalBranch THEN child
                                ELSE row.lastReturnedInternalIndex
         IN  IF branch \notin {ExternalBranch, InternalBranch}
             THEN [db |-> store, err |-> ErrBranch]
             ELSE IF \/ Inc(lastRetExtIndex)
                           < Inc(row.lastReturnedExternalIndex)
                     \/ Inc(lastRetIntIndex)
                           < Inc(row.lastReturnedInternalIndex)
             THEN [db |-> store, err |-> ErrNone]
             ELSE [db |-> putAccountRow(store, account,
                              bip0044AccountInfo(
                                  row.pubKeyEncrypted, row.privKeyEncrypted,
                                  row.lastUsedExternalIndex,
                                  row.lastUsedInternalIndex,
                                  Dec(maxUint32(Inc(row.lastUsedExternalIndex),
                                                Inc(lastRetExtIndex))),
                                  Dec(maxUint32(Inc(row.lastUsedInternalIndex),
                                                Inc(lastRetIntIndex))),
                                  row.name)),
                   err |-> ErrNone]

MarkReturnedChildIndex(t, account, branch, child) ==
    /\ Idling(t)
    /\ db' = markReturnedChildIndex(db, account, branch, child).db
    /\ Return(t, "MarkReturnedChildIndex",
              markReturnedChildIndex(db, account, branch, child).err)
    /\ UNCHANGED <<m, held, secretsReaders, privPw, oldPw, sealed, txn>>

---------------------------------------------------------------------------
(* Opening the store again.                                                *)

\* loadManager: the error, ErrNone when the store opens.
loadManagerErr(store, pubPassphrase) ==
    IF ~DeriveKeyOk(Unmarshal(store.masterPub), pubPassphrase)
    THEN ErrWrongPassphrase
    ELSE IF ~CanDecrypt(MasterKeyOf(pubPassphrase, store.masterPub[3]),
                        store.cryptoPub)
    THEN ErrCrypto
    ELSE ErrNone

\* Open: the process drops the manager it has, when no call is running and
\* no handle is held, and opens the store with a public passphrase; a
\* failed Open yields no manager and the process keeps the one it has.
Open(t, pubPassphrase, privPassphraseSalt) ==
    /\ Idling(t)
    /\ \A u \in Threads : pc[u] = Idle /\ held[u] = {}
    /\ IF loadManagerErr(db, pubPassphrase) # ErrNone
       THEN m' = m
       ELSE m' = loadManager(db, pubPassphrase, privPassphraseSalt)
    /\ Return(t, "Open", loadManagerErr(db, pubPassphrase))
    /\ UNCHANGED <<db, held, secretsReaders, privPw, oldPw, sealed, txn>>

\* CoinTypePrivKey
CoinTypePrivKey(t) ==
    /\ Idling(t)
    /\ MtxFree
    /\ IF m.locked THEN Return(t, "CoinTypePrivKey", ErrLocked)
       ELSE IF ~CanDecrypt(m.cryptoKeyPriv, db.coinTypePriv)
       THEN Return(t, "CoinTypePrivKey", ErrLocked)
       ELSE IF ~IsKeyString(Decrypt(m.cryptoKeyPriv, db.coinTypePriv))
       THEN Return(t, "CoinTypePrivKey", ErrKeyChain)
       ELSE Return(t, "CoinTypePrivKey", ErrNone)
    /\ UNCHANGED <<m, db, held, secretsReaders, privPw, oldPw, sealed, txn>>

---------------------------------------------------------------------------
(* Imports.                                                                *)

\* The private key wrapped whatever the mode of the manager.
importedPrivKeyAlways(mgr, wif) == Encrypt(mgr.cryptoKeyPriv, wif)

\* Encrypt the private key when not a watching-only address manager.
importedPrivKey(mgr, wif) ==
    IF ~mgr.watchingOnly THEN Encrypt(mgr.cryptoKeyPriv, wif) ELSE Nil

\* ImportPrivateKey without its check for an address that exists.
ImportPrivateKeyUnchecked(t, wif) ==
    /\ Idling(t)
    /\ MtxFree
    /\ IF m.locked /\ ~m.watchingOnly
       THEN Return(t, "ImportPrivateKey", ErrLocked) /\ UNCHANGED db
       ELSE /\ db' = putAddress(db, PubKeyHash(wif),
                         ImportedAddressRow(ImportedAddrAccount,
                             Encrypt(m.cryptoKeyPub, PubKeyOf(wif)),
                             importedPrivKey(m, wif)))
            /\ Return(t, "ImportPrivateKey", ErrNone)
    /\ UNCHANGED <<m, held, secretsReaders, privPw, oldPw, sealed, txn>>

\* ImportPrivateKey
ImportPrivateKey(t, wif) ==
    LET pubKeyHash == PubKeyHash(wif)
        encryptedPubKey == Encrypt(m.cryptoKeyPub, PubKeyOf(wif))
        encryptedPrivKey == importedPrivKey(m, wif)
    IN
    /\ Idling(t)
    /\ MtxFree
    /\ IF m.locked /\ ~m.watchingOnly
       THEN Return(t, "ImportPrivateKey", ErrLocked) /\ UNCHANGED db
       ELSE IF existsAddress(db, pubKeyHash)
       THEN Return(t, "ImportPrivateKey", ErrDuplicateAddress) /\ UNCHANGED db
       ELSE /\ db' = putAddress(db, pubKeyHash,
                         ImportedAddressRow(ImportedAddrAccount,
                                            encryptedPubKey, encryptedPrivKey))
            /\ Return(t, "ImportPrivateKey", ErrNone)
    /\ UNCHANGED <<m, held, secretsReaders, privPw, oldPw, sealed, txn>>

\* ImportScript
ImportScript(t, script) ==
    LET scriptHash == ScriptHash(script)
        encryptedHash == Encrypt(m.cryptoKeyPub, scriptHash)
        encryptedScript == IF ~m.watchingOnly
                           THEN Encrypt(m.cryptoKeyScript, script) ELSE Nil
    IN
    /\ Idling(t)
    /\ MtxFree
    /\ IF m.locked /\ ~m.watchingOnly
       THEN Return(t, "ImportScript", ErrLocked) /\ UNCHANGED db
       ELSE IF existsAddress(db, scriptHash)
       THEN Return(t, "ImportScript", ErrDuplicateAddress) /\ UNCHANGED db
       ELSE /\ db' = putAddress(db, scriptHash,
                         ScriptAddressRow(ImportedAddrAccount,
                                          encryptedHash, encryptedScript))
            /\ Return(t, "ImportScript", ErrNone)
    /\ UNCHANGED <<m, held, secretsReaders, privPw, oldPw, sealed, txn>>

---------------------------------------------------------------------------
(* PrivateKey, RedeemScript and the release handle they return.            *)

\* The address hashes callers ask about: the importable ones and a stranger.
Hashes == { PubKeyHash(w) : w \in Wifs } \cup { ScriptHash(s) : s \in Scripts }
              \cup { <<"pkh", <<"wif", "unknown">> >> }

\* The call returns a secret with a read hold on returnedSecretsMu: the
\* caller keeps the handle (returnedSecretsMu.RUnlock) until it invokes it.
ReturnSecret(t, op, addr) ==
    /\ secretsReaders' = RLock(secretsReaders)
    /\ held' = [held EXCEPT ![t] = @ \cup {addr}]
    /\ Return(t, op, ErrNone)

\* A failing call that takes the read hold before it returns.
NoSecretKeepsHold(t, op, err) ==
    /\ Return(t, op, err)
    /\ secretsReaders' = RLock(secretsReaders)
    /\ UNCHANGED <<m, held>>

\* A call of PrivateKey or RedeemScript that fails.
NoSecret(t, op, err) ==
    /\ Return(t, op, err)
    /\ UNCHANGED <<m, held, secretsReaders>>

\* deriveKey: the account key the derivation starts from, the private one
\* when the private flag is set.
deriveKeyFrom(acctInfo, private) ==
    IF private THEN acctInfo.acctKeyPriv ELSE acctInfo.acctKeyPub

\* PrivateKey, from m.mtx.Lock() on.
PrivateKeyBody(t, woSeen, addr) ==
    /\ MtxFree
    /\ IF woSeen THEN NoSecret(t, "PrivateKey", ErrWatchingOnly)
       ELSE IF m.locked THEN NoSecret(t, "PrivateKey", ErrLocked)
       ELSE IF addr \in DOMAIN m.returnedPrivKeys
       THEN ReturnSecret(t, "PrivateKey", addr) /\ UNCHANGED m
       ELSE IF ~existsAddress(db, addr)
       THEN NoSecret(t, "PrivateKey", ErrNotFound)
       ELSE LET a == db.addresses[addr] IN
            CASE a.type = "chain" ->
                   IF loadAccountInfoErr(m, db, a.account) # ErrNone
                   THEN NoSecret(t, "PrivateKey",
                                 loadAccountInfoErr(m, db, a.account))
                   ELSE LET m1 == loadAccountInfo(m, db, a.account)
                            xpriv == deriveKeyFrom(m1.acctInfo[a.account],
                                                   TRUE)
                        IN  IF xpriv = NoKey
                            THEN NoSecret(t, "PrivateKey", Panic)
                            ELSE /\ m' = [m1 EXCEPT
                                            !.returnedPrivKeys =
                                                (addr :> ChildKey(xpriv[2],
                                                                  a.branch,
                                                                  a.index))
                                                    @@ @]
                                 /\ ReturnSecret(t, "PrivateKey", addr)
              [] a.type = "imported" ->
                   IF ~CanDecrypt(m.cryptoKeyPriv, a.encryptedPriv)
                   THEN NoSecret(t, "PrivateKey", ErrCrypto)
                   ELSE /\ m' = [m EXCEPT !.returnedPrivKeys =
                                   (addr :> Decrypt(m.cryptoKeyPriv,
                                                    a.encryptedPriv)) @@ @]
                        /\ ReturnSecret(t, "PrivateKey", addr)
              [] OTHER -> NoSecret(t, "PrivateKey", ErrInput)
    /\ UNCHANGED <<db, privPw, oldPw, sealed, txn>>

\* RedeemScript that opens the secret of a row of any kind.
RedeemScriptBodyAnyRow(t, woSeen, addr) ==
    /\ MtxFree
    /\ IF woSeen THEN NoSecret(t, "RedeemScript", ErrWatchingOnly)
       ELSE IF m.locked THEN NoSecret(t, "RedeemScript", ErrLocked)
       ELSE IF ~existsAddress(db, addr)
       THEN NoSecret(t, "RedeemScript", ErrNotFound)
       ELSE LET a == db.addresses[addr] IN
            IF ~CanDecrypt(m.cryptoKeyScript, a.encryptedPriv)
            THEN NoSecret(t, "RedeemScript", ErrCrypto)
            ELSE /\ m' = [m EXCEPT !.returnedScripts =
                            (addr :> Decrypt(m.cryptoKeyScript,
                                             a.encryptedPriv)) @@ @]
                 /\ ReturnSecret(t, "RedeemScript", addr)
    /\ UNCHANGED <<db, privPw, oldPw, sealed, txn>>

\* RedeemScript, from m.mtx.Lock() on.
RedeemScriptBody(t, woSeen, addr) ==
    /\ MtxFree
    /\ IF woSeen THEN NoSecret(t, "RedeemScript", ErrWatchingOnly)
       ELSE IF m.locked THEN NoSecret(t, "RedeemScript", ErrLocked)
       ELSE IF addr \in DOMAIN m.returnedScripts
       THEN ReturnSecret(t, "RedeemScript", addr) /\ UNCHANGED m
       ELSE IF ~existsAddress(db, addr)
       THEN NoSecret(t, "RedeemScript", ErrNotFound)
       ELSE LET a == db.addresses[addr] IN
            IF a.type = "script"
            THEN IF ~CanDecrypt(m.cryptoKeyScript, a.encryptedPriv)
                 THEN NoSecret(t, "RedeemScript", ErrCrypto)
                 ELSE /\ m' = [m EXCEPT !.returnedScripts =
                                 (addr :> Decrypt(m.cryptoKeyScript,
                                                  a.encryptedPriv)) @@ @]
                      /\ ReturnSecret(t, "RedeemScript", addr)
            ELSE NoSecret(t, "RedeemScript", ErrInput)
    /\ UNCHANGED <<db, privPw, oldPw, sealed, txn>>

\* The caller invokes a handle it holds (the done function).
Release(t, addr) ==
    /\ Idling(t)
    /\ addr \in held[t]
    /\ held' = [held EXCEPT ![t] = @ \ {addr}]
    /\ secretsReaders' = RUnlock(secretsReaders)
    /\ UNCHANGED <<m, db, pc, ret, privPw, oldPw, sealed, txn>>

---------------------------------------------------------------------------
(* Address, Encrypt.                                                       *)

\* rowInterfaceToManaged / loadAddress: the error, ErrNone when the row
\* converts to a managed address.  A chained row derives its key from the
\* cached account, from the private key when the manager is unlocked; a
\* nil account key is dereferenced.
loadAddressErr(mgr, store, addr) ==
    IF ~existsAddress(store, addr) THEN ErrNotFound
    ELSE LET a == store.addresses[addr] IN
         IF a.type = "chain"
         THEN IF loadAccountInfoErr(mgr, store, a.account) # ErrNone
              THEN loadAccountInfoErr(mgr, store, a.account)
              ELSE IF deriveKeyFrom(
                          loadAccountInfo(mgr, store, a.account)
                              .acctInfo[a.account], ~mgr.locked) = NoKey
              THEN Panic
              ELSE ErrNone
         ELSE IF CanDecrypt(mgr.cryptoKeyPub, a.encryptedPub) THEN ErrNone
         ELSE ErrCrypto

\* rowInterfaceToManaged / loadAddress: the manager afterwards, the account
\* of a chained address cached.
loadAddressMgr(mgr, store, addr) ==
    IF loadAddressErr(mgr, store, addr) = ErrNone
           /\ store.addresses[addr].type = "chain"
    THEN loadAccountInfo(mgr, store, store.addresses[addr].account)
    ELSE mgr

\* rowInterfaceToManaged / loadAddress: the managed address of a row that
\* converts.  A chained address is built from the key derived at the row's
\* branch and index under the cached account key, an imported one from
\* the decrypted public key, a script address from the decrypted hash.
loadAddress(mgr, store, addr) ==
    LET a == store.addresses[addr] IN
    CASE a.type = "chain" ->
           LET info == loadAccountInfo(mgr, store, a.account)
                           .acctInfo[a.account]
               acctKey == deriveKeyFrom(info, ~mgr.locked)
           IN  [ account |-> a.account,
                 imported |-> FALSE,
                 internal |-> a.branch = InternalBranch,
                 script |-> FALSE,
                 address |->
                     PubKeyHash(ChildKey(acctKey[2], a.branch, a.index)) ]
      [] a.type = "imported" ->
           [ account |-> a.account,
             imported |-> TRUE,
             internal |-> FALSE,
             script |-> FALSE,
             address |->
                 PubKeyHash(Decrypt(mgr.cryptoKeyPub, a.encryptedPub)[2]) ]
      [] OTHER ->
           [ account |-> a.account,
             imported |-> TRUE,
             internal |-> FALSE,
             script |-> TRUE,
             address |-> Decrypt(mgr.cryptoKeyPub, a.encryptedPub) ]

\* Address that needs the manager unlocked for a chained row.
AddressUnlockedOnly(t, addr) ==
    LET err == IF existsAddress(db, addr) /\ db.addresses[addr].type = "chain"
                    /\ m.locked
               THEN ErrLocked
               ELSE loadAddressErr(m, db, addr)
    IN
    /\ Idling(t)
    /\ MtxFree
    /\ m' = IF err = ErrNone THEN loadAddressMgr(m, db, addr) ELSE m
    /\ ReturnVal(t, "Address", err,
                 IF err = ErrNone THEN loadAddress(m, db, addr) ELSE Nil)
    /\ UNCHANGED <<db, held, secretsReaders, privPw, oldPw, sealed, txn>>

\* Address: loadAddress of a stored row; the call returns the managed
\* address.
Address(t, addr) ==
    LET err == loadAddressErr(m, db, addr) IN
    /\ Idling(t)
    /\ MtxFree
    /\ m' = loadAddressMgr(m, db, addr)
    /\ ReturnVal(t, "Address", err,
                 IF err = ErrNone THEN loadAddress(m, db, addr) ELSE Nil)
    /\ UNCHANGED <<db, held, secretsReaders, privPw, oldPw, sealed, txn>>

\* fetchAddrAccount: the account the address index records for a hash.
fetchAddrAccount(store, hash) == store.addresses[hash].account

\* AddrAccount reads the store only; it does not take m.mtx.
AddrAccount(t, addr) ==
    /\ Idling(t)
    /\ IF ~existsAddress(db, addr)
       THEN ReturnVal(t, "AddrAccount", ErrNotFound, 0)
       ELSE ReturnVal(t, "AddrAccount", ErrNone, fetchAddrAccount(db, addr))
    /\ UNCHANGED <<m, db, held, secretsReaders, privPw, oldPw, sealed, txn>>

KeyTypes == {CKTPrivate, CKTScript, CKTPublic, "invalid"}

\* selectCryptoKey: the error, ErrNone when a key is selected.
selectCryptoKey(mgr, keyType) ==
    IF keyType \in {CKTPrivate, CKTScript} /\ (mgr.locked \/ mgr.watchingOnly)
    THEN ErrLocked
    ELSE IF keyType \notin {CKTPrivate, CKTScript, CKTPublic}
    THEN ErrInvalidKeyType
    ELSE ErrNone

\* selectCryptoKey: the key it selects where it returns no error.
selectedCryptoKey(mgr, keyType) ==
    IF keyType = CKTPrivate THEN mgr.cryptoKeyPriv
    ELSE IF keyType = CKTScript THEN mgr.cryptoKeyScript
    ELSE mgr.cryptoKeyPub

\* The byte strings a caller encrypts.
Plaintexts == {"x1", "x2"}

\* Manager.Encrypt: the result carries the arguments and the ciphertext.
ManagerEncrypt(t, keyType, in) ==
    LET err == selectCryptoKey(m, keyType)
        cryptoKey == selectedCryptoKey(m, keyType)
    IN  /\ Idling(t)
        /\ MtxFree
        /\ ReturnVal(t, "Encrypt", err,
                     [keyType |-> keyType, in |-> in,
                      out |-> IF err = ErrNone
                              THEN Encrypt(cryptoKey, in) ELSE Nil])
        /\ UNCHANGED <<m, db, held, secretsReaders, privPw, oldPw, sealed, txn>>

\* Manager.Decrypt: a ciphertext the selected key does not open is
\* ErrCrypto.
ManagerDecrypt(t, keyType, in) ==
    LET err == selectCryptoKey(m, keyType)
        cryptoKey == selectedCryptoKey(m, keyType)
    IN  /\ Idling(t)
        /\ MtxFree
        /\ IF err # ErrNone
           THEN ReturnVal(t, "Decrypt", err,
                          [keyType |-> keyType, in |-> in, out |-> Nil])
           ELSE IF ~CanDecrypt(cryptoKey, in)
           THEN ReturnVal(t, "Decrypt", ErrCrypto,
                          [keyType |-> keyType, in |-> in, out |-> Nil])
           ELSE ReturnVal(t, "Decrypt", ErrNone,
                          [keyType |-> keyType, in |-> in,
                           out |-> Decrypt(cryptoKey, in)])
        /\ UNCHANGED <<m, db, held, secretsReaders, privPw, oldPw, sealed, txn>>

---------------------------------------------------------------------------
(* The calls of the API, each a whole call: the handlers that read         *)
(* m.watchingOnly before taking the mutex read it here with no other call  *)
(* in between.                                                             *)

Lock(t) == Idling(t) /\ LockBody(t, m.watchingOnly)

Unlock(t, passphrase, fault) ==
    Idling(t) /\ UnlockBody(t, m.watchingOnly, passphrase, fault)

ChangePassphrase(t, oldPassphrase, newPassphrase, private, fault, kdfSalt, passphraseSalt) ==
    /\ Idling(t)
    /\ ChangePassphraseBody(t, m.watchingOnly, oldPassphrase, newPassphrase,
                            private, fault, kdfSalt, passphraseSalt)

NewAccount(t, name) == Idling(t) /\ NewAccountBody(t, m.watchingOnly, name)

\* held[t] names a handle by its address: a caller asks again for an
\* address only after it has invoked the handle it had for it.
PrivateKey(t, addr) ==
    /\ Idling(t)
    /\ HeldCount(t) < MaxHeld
    /\ addr \notin held[t]
    /\ PrivateKeyBody(t, m.watchingOnly, addr)

RedeemScript(t, addr) ==
    /\ Idling(t)
    /\ HeldCount(t) < MaxHeld
    /\ addr \notin held[t]
    /\ RedeemScriptBody(t, m.watchingOnly, addr)

\* The caller takes the result of the call that returned.
TakeResult ==
    /\ ret # NoResult
    /\ ret' = NoResult
    /\ UNCHANGED <<m, db, pc, held, secretsReaders, privPw, oldPw, sealed, txn>>

---------------------------------------------------------------------------
(* Specification.                                                          *)

\* The process opens a store that Create or CreateWatchOnly wrote.
Stores ==
    { createAddressManager("pa", priv, 1, 1) : priv \in Passphrases }
        \cup { createWatchOnly("pa", 1, 1) }

Init ==
    /\ db \in Stores
    /\ \E salt \in Salts : m = loadManager(db, "pa", salt)
    /\ pc = [t \in Threads |-> Idle]
    /\ held = [t \in Threads |-> {}]
    /\ secretsReaders = 0
    /\ ret = NoResult
    /\ privPw = IF db.watchingOnly THEN "" ELSE db.masterPriv[2]
    /\ oldPw = ""
    /\ sealed = {}
    /\ txn = NoTx

\* One call of thread t, from its entry to its return or to its wait in
\* lock().
Call(t) ==
        \/ Lock(t)
        \/ \E pw \in Passphrases, fault \in UnlockFaults : Unlock(t, pw, fault)
        \/ \E old, new \in Passphrases, private \in BOOLEAN,
              fault \in ChangeFaults, s1, s2 \in Salts :
                ChangePassphrase(t, old, new, private, fault, s1, s2)
        \/ ConvertToWatchingOnly(t)
        \/ Close(t)
        \/ \E account \in {DefaultAccountNum, 1, ImportedAddrAccount} :
                AccountExtendedPubKey(t, account)
        \/ \E name \in AccountNames : NewAccount(t, name)
        \/ CoinTypePrivKey(t)
        \/ \E wif \in Wifs : ImportPrivateKey(t, wif)
        \/ \E script \in Scripts : ImportScript(t, script)
        \/ \E addr \in Hashes : PrivateKey(t, addr)
        \/ \E addr \in Hashes : RedeemScript(t, addr)
        \/ \E addr \in Hashes : Address(t, addr)
        \/ \E keyType \in KeyTypes : ManagerEncrypt(t, keyType, "x1")

\* One caller: every call runs from entry to return before the next.
Next ==
    \/ Call("t1")
    \/ \E addr \in Hashes : Release("t1", addr)
    \/ TakeResult

Spec == Init /\ [][Next]_vars

---------------------------------------------------------------------------
(* Concurrent callers.  Lock, Unlock, PrivateKey and RedeemScript read     *)
(* m.watchingOnly before they take m.mtx: the read and the rest of the     *)
(* call are two steps, and other threads run in between.                   *)

RacyOps == {"Lock", "Unlock", "PrivateKey", "RedeemScript"}

\* The unlocked read of m.watchingOnly at the head of the call: the call
\* returns ErrWatchingOnly at once or goes on to m.mtx.Lock().
CheckWatchingOnly(t, op) ==
    /\ Idling(t)
    /\ op \in {"PrivateKey", "RedeemScript"} => HeldCount(t) < MaxHeld
    /\ IF m.watchingOnly
       THEN Return(t, op, ErrWatchingOnly)
       ELSE pc' = [pc EXCEPT ![t] = Checked(op)] /\ UNCHANGED ret
    /\ UNCHANGED <<m, db, held, secretsReaders, privPw, oldPw, sealed, txn>>

\* Thread t is past the read, waiting for m.mtx.
Waiting(t, op) == pc[t] = Checked(op) /\ ret = NoResult

\* The rest of the call, once m.mtx is acquired.
Proceed(t) ==
    \/ Waiting(t, "Lock") /\ LockBody(t, FALSE)
    \/ \E pw \in Passphrases :
           Waiting(t, "Unlock") /\ UnlockBody(t, FALSE, pw, "none")
    \/ \E addr \in Hashes \ held[t] :
           Waiting(t, "PrivateKey") /\ PrivateKeyBody(t, FALSE, addr)
    \/ \E addr \in Hashes \ held[t] :
           Waiting(t, "RedeemScript") /\ RedeemScriptBody(t, FALSE, addr)

\* NewAccount and ChangePassphrase(private = true) read m.watchingOnly
\* before they take m.mtx, as the four above do.
RacyChanges == {"NewAccount", "ChangePassphrase"}

\* The rest of a NewAccount or private ChangePassphrase call, once m.mtx
\* is acquired.
ProceedChange(t) ==
    \/ \E name \in AccountNames :
           Waiting(t, "NewAccount") /\ NewAccountBody(t, FALSE, name)
    \/ \E old, new \in Passphrases, s1, s2 \in Salts :
           /\ Waiting(t, "ChangePassphrase")
           /\ ChangePassphraseBody(t, FALSE, old, new, TRUE, "none", s1, s2)

\* One step of thread t among concurrent callers.
ConcStep(t) ==
    \/ \E op \in RacyOps : CheckWatchingOnly(t, op)
    \/ Proceed(t)
    \/ ConvertToWatchingOnly(t)
    \/ Close(t)
    \/ \E wif \in Wifs : ImportPrivateKey(t, wif)
    \/ \E script \in Scripts : ImportScript(t, script)

NextConc ==
    \/ \E t \in Threads : ConcStep(t)
    \/ \E t \in Threads : \E addr \in Hashes : Release(t, addr)
    \/ \E t \in Threads : LockResume(t)
    \/ TakeResult

SpecConc == Init /\ [][NextConc]_vars

\* Two threads that make the six calls with an unlocked watching-only
\* check, import keys and scripts, and convert the manager.
Racers == {"t1", "t2"}

RaceStep(t) ==
    \/ \E op \in RacyOps \cup RacyChanges : CheckWatchingOnly(t, op)
    \/ Proceed(t)
    \/ ProceedChange(t)
    \/ ConvertToWatchingOnly(t)
    \/ \E wif \in Wifs : ImportPrivateKey(t, wif)
    \/ \E script \in Scripts : ImportScript(t, script)

NextRace ==
    \/ \E t \in Racers : RaceStep(t)
    \/ \E t \in Racers : \E addr \in Hashes : Release(t, addr)
    \/ \E t \in Racers : LockResume(t)
    \/ TakeResult

SpecRace == Init /\ [][NextRace]_vars

\* Two threads that create, rename and look up accounts, and unlock, lock
\* and convert the manager.
ManyNames == AccountNames \cup {"b", "c"}

ProceedAccount(t) ==
    \E name \in ManyNames :
        Waiting(t, "NewAccount") /\ NewAccountBody(t, FALSE, name)

AcctStep(t) ==
    \/ CheckWatchingOnly(t, "NewAccount")
    \/ ProceedAccount(t)
    \/ \E account \in 0 .. ImportedAddrAccount : \E name \in ManyNames :
           RenameAccount(t, account, name)
    \/ \E account \in {DefaultAccountNum, 1} :
           AccountExtendedPubKey(t, account)
    \/ \E pw \in Passphrases : Unlock(t, pw, "none")
    \/ Lock(t)
    \/ ConvertToWatchingOnly(t)

NextAcct ==
    \/ \E t \in Racers : AcctStep(t)
    \/ TakeResult

SpecAcct == Init /\ [][NextAcct]_vars

\* One caller that creates accounts, syncs the default account to an
\* address index, and imports private keys, that of a child of the default
\* account among them.
ChildWifs == { ChildKey(DefaultAccountNum, ExternalBranch, 1) }
SyncNames == {"acct", "b", "c"}
SyncAccounts == {DefaultAccountNum, ImportedAddrAccount, ImportedAddrAccount + 1}
SyncIndexes == 0 .. 2 ^ WordBits - 1
SyncBranches == {ExternalBranch, InternalBranch, 2}

SyncStep(t) ==
    \/ \E account \in SyncAccounts, k \in SyncIndexes, branch \in SyncBranches :
           SyncAccountToAddrIndex(t, account, k, branch)
    \/ \E name \in SyncNames : NewAccount(t, name)
    \/ \E wif \in Wifs \cup ChildWifs : ImportPrivateKey(t, wif)
    \/ \E pw \in Passphrases : Unlock(t, pw, "none")
    \/ Lock(t)

NextSync ==
    \/ SyncStep("t1")
    \/ TakeResult

SpecSync == Init /\ [][NextSync]_vars

\* The loop of syncAccountToAddrIndex on its own, for every target index
\* that passes the check against MaxAddressesPerAccount, every pattern of
\* invalid children of the branch, and the store the earlier runs left.
LoopTargets == 0 .. MaxAddressesPerAccount
LoopBranches == {ExternalBranch, InternalBranch}
SyncLoop(t, invalid, branch, target) ==
    LET r == syncLoop({ <<DefaultAccountNum, branch, c>> : c \in invalid },
                      db, DefaultAccountNum, branch, target)
    IN  /\ Idling(t)
        /\ db' = r.db
        /\ ReturnVal(t, "syncAccountToAddrIndex", r.err,
                     [target |-> target, visited |-> r.visited])
        /\ UNCHANGED <<m, held, secretsReaders, privPw, oldPw, sealed, txn>>

NextLoop ==
    \/ \E invalid \in SUBSET LoopTargets, branch \in LoopBranches,
          target \in LoopTargets : SyncLoop("t1", invalid, branch, target)
    \/ TakeResult

SpecLoop == Init /\ [][NextLoop]_vars

\* One caller that fills the store with chained, imported and script
\* addresses, renames and creates accounts, locks, unlocks and converts the
\* manager, and looks the addresses up.
AddrAccounts == {DefaultAccountNum, 1}
AddrIndexes == {0, 1}
AddrBranches == {ExternalBranch, InternalBranch}
AddrHashes ==
    Hashes \cup { PubKeyHash(ChildKey(a, b, i)) :
                      a \in AddrAccounts, b \in AddrBranches, i \in AddrIndexes }

AddrStep(t) ==
    \/ \E account \in AddrAccounts, k \in AddrIndexes, branch \in AddrBranches :
           SyncAccountToAddrIndex(t, account, k, branch)
    \/ NewAccount(t, "acct")
    \/ \E account \in AddrAccounts : RenameAccount(t, account, "b")
    \/ \E wif \in Wifs \cup ChildWifs : ImportPrivateKey(t, wif)
    \/ \E script \in Scripts : ImportScript(t, script)
    \/ \E pw \in Passphrases : Unlock(t, pw, "none")
    \/ Lock(t)
    \/ ConvertToWatchingOnly(t)
    \/ \E addr \in AddrHashes : Address(t, addr)
    \/ \E addr \in AddrHashes : AddrAccount(t, addr)

NextAddr ==
    \/ AddrStep("t1")
    \/ TakeResult

SpecAddr == Init /\ [][NextAddr]_vars

\* One caller that unlocks, locks and converts the manager, changes the
\* passphrases, fills the account cache, and opens the store again.
OpenStep(t) ==
    \/ \E pw \in Passphrases, salt \in Salts : Open(t, pw, salt)
    \/ \E pw \in Passphrases : Unlock(t, pw, "none")
    \/ Lock(t)
    \/ \E old, new \in Passphrases, private \in BOOLEAN, s1, s2 \in Salts :
           ChangePassphrase(t, old, new, private, "none", s1, s2)
    \/ ConvertToWatchingOnly(t)
    \/ AccountExtendedPubKey(t, DefaultAccountNum)
    \/ \E wif \in Wifs : ImportPrivateKey(t, wif)
    \/ \E addr \in Hashes : PrivateKey(t, addr)
    \/ \E addr \in Hashes : Release(t, addr)

NextOpen ==
    \/ OpenStep("t1")
    \/ TakeResult

SpecOpen == Init /\ [][NextOpen]_vars

---------------------------------------------------------------------------
(* The store transaction around a call.  Every handler writes through the  *)
(* bucket of a read/write transaction that its caller opened and that the  *)
(* caller commits or rolls back after the handler has returned.            *)

\* The caller opens a read/write transaction: the store as it stands is
\* what a rollback brings back.
TxBegin(t) ==
    /\ Idling(t)
    /\ ~txn.open
    /\ txn' = [open |-> TRUE, db |-> db]
    /\ UNCHANGED <<m, db, pc, held, secretsReaders, ret, privPw, oldPw, sealed>>

\* The caller commits: the writes made since TxBegin stay.
TxCommit(t) ==
    /\ Idling(t)
    /\ txn.open
    /\ txn' = NoTx
    /\ UNCHANGED <<m, db, pc, held, secretsReaders, ret, privPw, oldPw, sealed>>

\* The caller rolls the transaction back: the store is as it was at
\* TxBegin; the manager is not told.
TxRollback(t) ==
    /\ Idling(t)
    /\ txn.open
    /\ db' = txn.db
    /\ txn' = NoTx
    /\ UNCHANGED <<m, pc, held, secretsReaders, ret, privPw, oldPw, sealed>>

TxNames == {"b", "c"}

\* One caller that changes the passphrases, converts the manager, renames
\* and loads the default account and unlocks and locks the manager, inside
\* transactions it commits or rolls back and outside of them.
TxStep(t) ==
    \/ TxBegin(t)
    \/ TxCommit(t)
    \/ TxRollback(t)
    \/ \E old, new \in Passphrases, private \in BOOLEAN, s1, s2 \in Salts :
           ChangePassphrase(t, old, new, private, "none", s1, s2)
    \/ ConvertToWatchingOnly(t)
    \/ \E name \in TxNames : RenameAccount(t, DefaultAccountNum, name)
    \/ AccountExtendedPubKey(t, DefaultAccountNum)
    \/ \E pw \in Passphrases : Unlock(t, pw, "none")
    \/ Lock(t)

NextTx ==
    \/ TxStep("t1")
    \/ TakeResult

SpecTx == Init /\ [][NextTx]_vars

\* The caller takes the result of the call that returned and keeps what a
\* successful Encrypt gave it, with the private passphrase of that moment;
\* a Lock it sees succeed is noted on what it keeps.
KeepResult ==
    /\ ret # NoResult
    /\ ret' = NoResult
    /\ sealed' = IF ret.op = "Encrypt" /\ ret.err = ErrNone
                 THEN { [keyType |-> ret.val.keyType, in |-> ret.val.in,
                         out |-> ret.val.out, privPw |-> privPw,
                         relocked |-> FALSE] }
                 ELSE IF ret.op = "Lock" /\ ret.err = ErrNone
                 THEN { [s EXCEPT !.relocked = TRUE] : s \in sealed }
                 ELSE sealed
    /\ UNCHANGED <<m, db, pc, held, secretsReaders, privPw, oldPw, txn>>

\* One caller that encrypts data, locks and unlocks the manager, changes
\* the passphrases, and decrypts what it kept under each key type.
CryptStep(t) ==
    \/ \E keyType \in KeyTypes, in \in Plaintexts : ManagerEncrypt(t, keyType, in)
    \/ \E keyType \in KeyTypes : \E s \in sealed : ManagerDecrypt(t, keyType, s.out)
    \/ \E pw \in Passphrases : Unlock(t, pw, "none")
    \/ Lock(t)
    \/ \E old, new \in Passphrases, private \in BOOLEAN, s1, s2 \in Salts :
           ChangePassphrase(t, old, new, private, "none", s1, s2)
    \/ ConvertToWatchingOnly(t)

NextCrypt ==
    \/ CryptStep("t1")
    \/ KeepResult

SpecCrypt == Init /\ [][NextCrypt]_vars

---------------------------------------------------------------------------
(* The lock mode of each access to the manager's fields.                   *)

\* Thread t is past m.mtx.RLock(), the body of its handler still to run.
RLocked(op, account) == [at |-> "rlocked", op |-> op, err |-> "", account |-> account]
\* Thread t is past m.mtx.Lock(), the body of its handler still to run.
WLocked(op) == [at |-> "wlocked", op |-> op, err |-> ""]
\* Thread t is inside a handler that takes no lock, its read still to come.
NoLock(op) == [at |-> "nolock", op |-> op, err |-> ""]

\* The mode in which thread t holds m.mtx.
HeldMode(t) ==
    IF pc[t].at \in {"wlocked", "lock", "callback"} THEN "write"
    ELSE IF pc[t].at = "rlocked" THEN "read"
    ELSE "none"

Read(field) == [field |-> field, write |-> FALSE]
Write(field) == [field |-> field, write |-> TRUE]

\* The accesses to m.locked, m.watchingOnly and m.acctInfo that the body
\* thread t is about to run makes: loadAccountInfo looks the account up in
\* the cache and, on a miss it can fill, reads m.locked and stores the
\* entry; ConvertToWatchingOnly reads m.watchingOnly and, when it is
\* false, locks the manager, clears the cached keys and sets it.
Accesses(t) ==
    IF pc[t].at = "nolock" THEN { Read("watchingOnly") }
    ELSE IF pc[t].at = "rlocked" /\ pc[t].op = "IsLocked"
    THEN { Read("locked") }
    ELSE IF pc[t].at = "rlocked" /\ pc[t].op = "AccountProperties"
    THEN IF pc[t].account = ImportedAddrAccount THEN {}
         ELSE IF pc[t].account \in DOMAIN m.acctInfo
         THEN { Read("acctInfo") }
         ELSE IF loadAccountInfoErr(m, db, pc[t].account) = ErrNone
         THEN { Read("acctInfo"), Read("locked"), Write("acctInfo") }
         ELSE { Read("acctInfo") }
    ELSE IF pc[t].at = "wlocked" /\ pc[t].op = "ConvertToWatchingOnly"
    THEN IF m.watchingOnly THEN { Read("watchingOnly") }
         ELSE { Read("watchingOnly"), Read("locked"), Write("locked"),
                Read("acctInfo"), Write("acctInfo"), Write("watchingOnly") }
    ELSE {}

\* Two accesses to one field, at least one of them a write.
Conflict(a, b) == a.field = b.field /\ (a.write \/ b.write)

\* Another thread is about to make an access that conflicts with one of
\* thread t's on the field.
Races(t, field) ==
    \E u \in Threads \ {t} : \E a \in Accesses(t), b \in Accesses(u) :
        a.field = field /\ Conflict(a, b)

\* m.mtx.RLock() of AccountProperties and IsLocked: readers share the
\* mutex, a writer excludes them.
MtxRLock(t, op, account) ==
    /\ Idling(t)
    /\ \A u \in Threads : HeldMode(u) # "write"
    /\ pc' = [pc EXCEPT ![t] = RLocked(op, account)]
    /\ UNCHANGED <<m, db, held, secretsReaders, ret, privPw, oldPw, sealed, txn>>

\* m.mtx.Lock() of ConvertToWatchingOnly.
MtxLock(t, op) ==
    /\ Idling(t)
    /\ MtxFree
    /\ pc' = [pc EXCEPT ![t] = WLocked(op)]
    /\ UNCHANGED <<m, db, held, secretsReaders, ret, privPw, oldPw, sealed, txn>>

\* The entry of WatchingOnly, which takes no lock.
WatchingOnlyEnter(t) ==
    /\ Idling(t)
    /\ pc' = [pc EXCEPT ![t] = NoLock("WatchingOnly")]
    /\ UNCHANGED <<m, db, held, secretsReaders, ret, privPw, oldPw, sealed, txn>>

\* WatchingOnly: return m.watchingOnly. A read that races with the write of
\* ConvertToWatchingOnly may see either value.
WatchingOnly(t) ==
    /\ pc[t].at = "nolock"
    /\ ret = NoResult
    /\ \E seen \in IF Races(t, "watchingOnly") THEN BOOLEAN ELSE {m.watchingOnly} :
           ReturnVal(t, "WatchingOnly", ErrNone, seen)
    /\ UNCHANGED <<m, db, held, secretsReaders, privPw, oldPw, sealed, txn>>

\* IsLocked, m.mtx held for reading.
IsLocked(t) ==
    /\ pc[t].at = "rlocked"
    /\ pc[t].op = "IsLocked"
    /\ ret = NoResult
    /\ ReturnVal(t, "IsLocked", ErrNone, m.locked)
    /\ UNCHANGED <<m, db, held, secretsReaders, privPw, oldPw, sealed, txn>>

\* The properties AccountProperties returns for an account.
accountProps(mgr, store, account) ==
    IF account = ImportedAddrAccount
    THEN [ AccountNumber |-> account,
           AccountName |-> ImportedAddrAccountName,
           LastUsedExternalIndex |-> 0,
           LastUsedInternalIndex |-> 0,
           LastReturnedExternalIndex |-> 0,
           LastReturnedInternalIndex |-> 0,
           ImportedKeyCount |->
               Cardinality({ h \in DOMAIN store.addresses :
                               store.addresses[h].account = account }) ]
    ELSE [ AccountNumber |-> account,
           AccountName |-> mgr.acctInfo[account].acctName,
           LastUsedExternalIndex |-> store.accounts[account].lastUsedExternalIndex,
           LastUsedInternalIndex |-> store.accounts[account].lastUsedInternalIndex,
           LastReturnedExternalIndex |-> store.accounts[account].lastReturnedExternalIndex,
           LastReturnedInternalIndex |-> store.accounts[account].lastReturnedInternalIndex,
           ImportedKeyCount |-> 0 ]

\* AccountProperties, m.mtx held for reading: loadAccountInfo stores the
\* account in the cache on a miss. When another reader is about to access
\* the cache map and one of the two writes it, the Go runtime may stop the
\* process ("concurrent map writes") or let both go on.
AccountProperties(t) ==
    LET account == pc[t].account
        err == IF account = ImportedAddrAccount THEN ErrNone
               ELSE loadAccountInfoErr(m, db, account)
        m1 == IF account = ImportedAddrAccount \/ err # ErrNone THEN m
              ELSE loadAccountInfo(m, db, account)
    IN  /\ pc[t].at = "rlocked"
        /\ pc[t].op = "AccountProperties"
        /\ ret = NoResult
        /\ \/ /\ m' = m1
              /\ ReturnVal(t, "AccountProperties", err,
                           IF err = ErrNone THEN accountProps(m1, db, account)
                           ELSE Nil)
           \/ /\ Races(t, "acctInfo")
              /\ m' = m
              /\ ReturnVal(t, "AccountProperties", Panic, Nil)
        /\ UNCHANGED <<db, held, secretsReaders, privPw, oldPw, sealed, txn>>

\* The body of the handler that holds m.mtx for writing.
Locked(t) ==
    /\ pc[t].at = "wlocked"
    /\ pc[t].op = "ConvertToWatchingOnly"
    /\ ret = NoResult
    /\ ConvertToWatchingOnlyBody(t)

ModeThreads == {"t1", "t2"}
ModeAccounts == {DefaultAccountNum, 1, ImportedAddrAccount}

\* Two callers that ask for the watching-only flag, the lock state and the
\* properties of accounts while the manager is unlocked, locked and
\* converted.
ModeStep(t) ==
    \/ WatchingOnlyEnter(t)
    \/ WatchingOnly(t)
    \/ MtxRLock(t, "IsLocked", DefaultAccountNum)
    \/ IsLocked(t)
    \/ \E account \in ModeAccounts : MtxRLock(t, "AccountProperties", account)
    \/ AccountProperties(t)
    \/ MtxLock(t, "ConvertToWatchingOnly")
    \/ Locked(t)
    \/ \E pw \in Passphrases : Unlock(t, pw, "none")
    \/ Lock(t)

NextMode ==
    \/ \E t \in ModeThreads : ModeStep(t)
    \/ TakeResult

SpecMode == Init /\ [][NextMode]_vars

\* One caller that syncs the external branch of the default account,
\* imports keys and scripts, locks and unlocks the manager, and asks for
\* the secrets of the addresses.
KeyHashes ==
    Hashes \cup { PubKeyHash(ChildKey(DefaultAccountNum, ExternalBranch, i)) :
                      i \in AddrIndexes }

KeyStep(t) ==
    \/ \E k \in AddrIndexes :
           SyncAccountToAddrIndex(t, DefaultAccountNum, k, ExternalBranch)
    \/ \E wif \in Wifs \cup ChildWifs : ImportPrivateKey(t, wif)
    \/ \E script \in Scripts : ImportScript(t, script)
    \/ \E pw \in Passphrases : Unlock(t, pw, "none")
    \/ Lock(t)
    \/ \E addr \in KeyHashes : PrivateKey(t, addr)
    \/ \E addr \in KeyHashes : RedeemScript(t, addr)
    \/ \E addr \in KeyHashes : Release(t, addr)

NextKey ==
    \/ KeyStep("t1")
    \/ TakeResult

SpecKey == Init /\ [][NextKey]_vars

\* One caller that creates an account and addresses and marks children of
\* the accounts as used and as returned.
MarkAccounts == {DefaultAccountNum, 1}
MarkIndexes == {0, 1, NoIndex}
MarkBranches == {ExternalBranch, InternalBranch, 2}

MarkStep(t) ==
    \/ \E k \in AddrIndexes :
           SyncAccountToAddrIndex(t, DefaultAccountNum, k, ExternalBranch)
    \/ NewAccount(t, "acct")
    \/ \E wif \in Wifs : ImportPrivateKey(t, wif)
    \/ \E script \in Scripts : ImportScript(t, script)
    \/ \E pw \in Passphrases : Unlock(t, pw, "none")
    \/ \E addr \in KeyHashes : MarkUsed(t, addr)
    \/ \E account \in MarkAccounts, branch \in MarkBranches,
          child \in MarkIndexes :
           \/ MarkUsedChildIndex(t, account, branch, child)
           \/ MarkReturnedChildIndex(t, account, branch, child)

NextMark ==
    \/ MarkStep("t1")
    \/ TakeResult

SpecMark == Init /\ [][NextMark]_vars

\* Callers that import keys and scripts, unlock and lock the manager and
\* ask for secrets, and that make no call while they hold a handle but
\* its release.
QuietStep(t) ==
    /\ HeldCount(t) = 0
    /\ \/ \E op \in RacyOps : CheckWatchingOnly(t, op)
       \/ Proceed(t)
       \/ \E wif \in Wifs : ImportPrivateKey(t, wif)
       \/ \E script \in Scripts : ImportScript(t, script)

NextQuiet ==
    \/ \E t \in Threads : QuietStep(t)
    \/ \E t \in Threads : \E addr \in Hashes : Release(t, addr)
    \/ \E t \in Threads : LockResume(t)
    \/ TakeResult

\* While handles are out one of them is released in the end, a writer
\* waiting on returnedSecretsMu is woken when the last reader has left, and
\* a call that returned is taken by its caller.
Fairness ==
    /\ WF_vars(\E t \in Threads : \E addr \in Hashes : Release(t, addr))
    /\ WF_vars(\E t \in Threads : LockResume(t))
    /\ WF_vars(TakeResult)

SpecFair == Init /\ [][NextQuiet]_vars /\ Fairness

---------------------------------------------------------------------------
(* ForEachAccountAddress and ForEachActiveAddress: m.mtx is taken at the   *)
(* head of the call and released by a deferred Unlock, and the caller's    *)
(* function runs in between, once for each address row.                    *)

\* Inside the caller's function for address row, the rows todo still to
\* visit; m.mtx is held.
InCallback(op, row, todo) ==
    [at |-> "callback", op |-> op, err |-> "", row |-> row, todo |-> todo]

\* At m.mtx.Lock() (or RLock) of call op about address addr; outer is Idle
\* for a call of the thread itself and else the callback that makes it.
AtMtx(op, addr, outer) ==
    [at |-> "wait", op |-> op, err |-> "", addr |-> addr, outer |-> outer]

\* forEachAccountAddress: the address rows of account.
forEachAccountAddress(store, account) ==
    { h \in DOMAIN store.addresses : store.addresses[h].account = account }

\* forEachActiveAddress: every address row.
forEachActiveAddress(store) == DOMAIN store.addresses

\* addrFn on one of the rows left: the row fails to convert and the call
\* returns the error, or the caller's function is entered.
VisitRow(t, op, rows) ==
    \E h \in rows :
        IF loadAddressErr(m, db, h) # ErrNone
        THEN Return(t, op, loadAddressErr(m, db, h)) /\ UNCHANGED m
        ELSE /\ m' = loadAddressMgr(m, db, h)
             /\ pc' = [pc EXCEPT ![t] = InCallback(op, h, rows \ {h})]
             /\ UNCHANGED ret

\* The call takes m.mtx and visits the first row, if there is one.
ForEachBegin(t, op, rows) ==
    /\ Idling(t)
    /\ MtxFree
    /\ IF rows = {}
       THEN Return(t, op, ErrNone) /\ UNCHANGED m
       ELSE VisitRow(t, op, rows)
    /\ UNCHANGED <<db, held, secretsReaders, privPw, oldPw, sealed, txn>>

ForEachAccountAddress(t, account) ==
    ForEachBegin(t, "ForEachAccountAddress",
                 forEachAccountAddress(db, account))

ForEachActiveAddress(t) ==
    ForEachBegin(t, "ForEachActiveAddress", forEachActiveAddress(db))

\* What the caller's function returns: nil or an error of its own.
CallbackErrs == {ErrNone, "callback"}

\* The caller's function returns: on an error, or after the last row, the
\* call returns and the deferred m.mtx.Unlock() runs; else the next row.
CallbackReturns(t, err) ==
    /\ pc[t].at = "callback"
    /\ ret = NoResult
    /\ IF err # ErrNone \/ pc[t].todo = {}
       THEN Return(t, pc[t].op, err) /\ UNCHANGED m
       ELSE VisitRow(t, pc[t].op, pc[t].todo)
    /\ UNCHANGED <<db, held, secretsReaders, privPw, oldPw, sealed, txn>>

\* The calls a caller's function makes on the manager.
CallbackCalls == {"Address", "IsLocked"}

\* A thread calls Address or IsLocked and arrives at the call's
\* m.mtx.Lock() (m.mtx.RLock() for IsLocked).
CallArrives(t, op, addr) ==
    /\ Idling(t)
    /\ pc' = [pc EXCEPT ![t] = AtMtx(op, addr, Idle)]
    /\ UNCHANGED <<m, db, held, secretsReaders, ret, privPw, oldPw, sealed, txn>>

\* The caller's function of a ForEach call calls Address on the address it
\* was handed, or IsLocked, and arrives at that call's m.mtx.Lock().
CallbackArrives(t, op) ==
    /\ pc[t].at = "callback"
    /\ ret = NoResult
    /\ pc' = [pc EXCEPT ![t] = AtMtx(op, pc[t].row, pc[t])]
    /\ UNCHANGED <<m, db, held, secretsReaders, ret, privPw, oldPw, sealed, txn>>

\* m.mtx is granted to a thread that waits for it: the call runs and
\* returns, to the thread or into the caller's function that made it.
MtxAcquire(t) ==
    LET c == pc[t]
        err == IF c.op = "Address" THEN loadAddressErr(m, db, c.addr)
               ELSE ErrNone
    IN
    /\ c.at = "wait"
    /\ ret = NoResult
    /\ MtxFree
    /\ m' = IF c.op = "Address" THEN loadAddressMgr(m, db, c.addr) ELSE m
    /\ IF c.outer = Idle
       THEN Return(t, c.op, err)
       ELSE pc' = [pc EXCEPT ![t] = c.outer] /\ UNCHANGED ret
    /\ UNCHANGED <<db, held, secretsReaders, privPw, oldPw, sealed, txn>>

\* The threads that iterate.
Iterators == {"t1", "t2"}

\* One step of a thread that imports keys and scripts, unlocks and locks
\* the manager, looks addresses up and iterates over them.
IterStep(t) ==
    \/ \E account \in {DefaultAccountNum, ImportedAddrAccount} :
           ForEachAccountAddress(t, account)
    \/ ForEachActiveAddress(t)
    \/ \E err \in CallbackErrs : CallbackReturns(t, err)
    \/ \E op \in CallbackCalls : CallbackArrives(t, op)
    \/ \E addr \in Hashes : CallArrives(t, "Address", addr)
    \/ CallArrives(t, "IsLocked", Nil)
    \/ MtxAcquire(t)
    \/ \E wif \in Wifs : ImportPrivateKey(t, wif)
    \/ \E script \in Scripts : ImportScript(t, script)
    \/ \E pw \in Passphrases : Unlock(t, pw, "none")
    \/ Lock(t)

NextIter ==
    \/ \E t \in Iterators : IterStep(t)
    \/ TakeResult

\* A caller's function returns in the end, m.mtx is granted to a thread
\* that stays able to take it, and a call that returned is taken by its
\* caller.
FairnessIter ==
    /\ \A t \in Iterators :
           /\ WF_vars(\E err \in CallbackErrs : CallbackReturns(t, err))
           /\ WF_vars(MtxAcquire(t))
    /\ WF_vars(TakeResult)

SpecIter == Init /\ [][NextIter]_vars /\ FairnessIter

\* Two threads that import a key, unlock and lock the manager and ask for
\* the private key; a thread that holds a handle may call Address or
\* IsLocked before it invokes the handle.
Holders == {"t1", "t2"}

HoldStep(t) ==
    \/ \E wif \in Wifs : ImportPrivateKey(t, wif)
    \/ \E pw \in Passphrases : Unlock(t, pw, "none")
    \/ Lock(t)
    \/ LockResume(t)
    \/ \E addr \in Hashes : PrivateKey(t, addr)
    \/ \E addr \in Hashes : Release(t, addr)
    \/ \E addr \in Hashes : CallArrives(t, "Address", addr)
    \/ CallArrives(t, "IsLocked", Nil)
    \/ MtxAcquire(t)

NextHold ==
    \/ \E t \in Holders : HoldStep(t)
    \/ TakeResult

\* m.mtx is granted to a thread that stays able to take it, a writer
\* waiting on returnedSecretsMu is woken when the last reader has left, and
\* a call that returned is taken by its caller.
FairnessHold ==
    /\ \A t \in Holders : WF_vars(MtxAcquire(t)) /\ WF_vars(LockResume(t))
    /\ WF_vars(TakeResult)

SpecHold == Init /\ [][NextHold]_vars /\ FairnessHold

---------------------------------------------------------------------------
(* Properties.                                                             *)

\* Manager mgr holds no private-tier plaintext.
PlaintextFree(mgr) ==
    /\ \A a \in DOMAIN mgr.acctInfo : mgr.acctInfo[a].acctKeyPriv = NoKey
    /\ mgr.cryptoKeyPriv = ZeroKey
    /\ mgr.cryptoKeyScript = ZeroKey
    /\ mgr.masterKeyPriv.Key = ZeroKey
    /\ mgr.hashedPrivPassphrase = ZeroHash
    /\ mgr.returnedPrivKeys = EmptyMap
    /\ mgr.returnedScripts = EmptyMap

\* A call returns in this step.
Returns(op) == ret = NoResult /\ ret'.op = op

\* C1: in every state of a manager that is locked and not watching-only,
\* no private-tier plaintext is in memory: no cached account has its xpriv,
\* the crypto private key, the crypto script key and the master private key
\* are zeroed, the passphrase hash is zero and both returned-secrets maps
\* are empty.
C1_LockedHoldsNoPlaintext ==
    (m.locked /\ ~m.watchingOnly) => PlaintextFree(m)

\* Lock has returned on a manager that had a cached account, a returned
\* private key and a returned script to clear.
C1_Witness ==
    /\ ret = [op |-> "Lock", err |-> ErrNone]
    /\ m.locked /\ ~m.watchingOnly
    /\ DefaultAccountNum \in DOMAIN m.acctInfo
    /\ \E w \in Wifs : existsAddress(db, PubKeyHash(w))
    /\ \E sc \in Scripts : existsAddress(db, ScriptHash(sc))
    /\ m.acctInfo[DefaultAccountNum].acctKeyEncrypted # Nil

\* C2: every Unlock that returns an error on a manager that is not
\* watching-only, whatever the failure and whether the manager was locked
\* or unlocked when called, leaves it locked with no private-tier plaintext.
C2_FailedUnlockLocks ==
    [][(~m.watchingOnly /\ Returns("Unlock") /\ ret'.err # ErrNone)
           => (m'.locked /\ PlaintextFree(m'))]_vars

\* Unlock has failed on the parse of a cached account's private key, after
\* the master key was derived and the crypto private key unwrapped.
C2_Witness ==
    /\ ret = [op |-> "Unlock", err |-> ErrKeyChain]
    /\ m.locked /\ ~m.watchingOnly
    /\ Cardinality(DOMAIN m.acctInfo) = 2

C4_WatchingOnlyRejects ==
    [][\A t \in Threads :
          (/\ m.watchingOnly
           /\ \/ Returns("Lock") \/ Returns("Unlock") \/ Returns("NewAccount")
              \/ Returns("PrivateKey") \/ Returns("RedeemScript")
              \/ \E old, new \in Passphrases, fault \in ChangeFaults,
                    s1, s2 \in Salts :
                      ChangePassphrase(t, old, new, TRUE, fault, s1, s2))
            => (ret'.err = ErrWatchingOnly /\ m' = m /\ db' = db)]_vars

\* A private ChangePassphrase has been refused on a manager converted to
\* watching-only.
C4_Witness ==
    /\ ret = [op |-> "ChangePassphrase", err |-> ErrWatchingOnly]
    /\ m.watchingOnly
    /\ db.masterPriv = Nil

\* Manager mgr holds no private-tier value, wrapped or unwrapped.
PrivateTierDropped(mgr) ==
    /\ \A a \in DOMAIN mgr.acctInfo :
           mgr.acctInfo[a].acctKeyPriv = NoKey
           /\ mgr.acctInfo[a].acctKeyEncrypted = Nil
    /\ mgr.cryptoKeyPrivEncrypted = Nil /\ mgr.cryptoKeyPriv = NoKey
    /\ mgr.cryptoKeyScriptEncrypted = Nil /\ mgr.cryptoKeyScript = NoKey
    /\ mgr.masterKeyPriv = NilSecretKey
    /\ mgr.hashedPrivPassphrase = ZeroHash
    /\ mgr.returnedPrivKeys = EmptyMap /\ mgr.returnedScripts = EmptyMap

\* C5: ConvertToWatchingOnly returns success and leaves the manager
\* watching-only and locked with every wrapped and unwrapped private-tier
\* value dropped; on a manager already watching-only it changes nothing;
\* and no step makes a watching-only manager not watching-only or unlocked.
C5_ConvertIsFinal ==
    [][/\ Returns("ConvertToWatchingOnly")
          => /\ ret'.err = ErrNone
             /\ m'.watchingOnly /\ m'.locked
             /\ ~m.watchingOnly => PrivateTierDropped(m')
             /\ m.watchingOnly => (m' = m /\ db' = db)
       /\ m.watchingOnly => (m'.watchingOnly /\ m'.locked)]_vars

\* ConvertToWatchingOnly has returned on a manager that was unlocked with
\* a cached account and an imported key in the store.
C5_Witness ==
    /\ ret = [op |-> "ConvertToWatchingOnly", err |-> ErrNone]
    /\ m.watchingOnly /\ m.locked
    /\ DefaultAccountNum \in DOMAIN m.acctInfo
    /\ m.acctInfo[DefaultAccountNum].acctKeyEncrypted = Nil
    /\ \E w \in Wifs : existsAddress(db, PubKeyHash(w))

\* The manager still keeps the secret it handed out for address addr.
Kept(addr) ==
    \/ addr \in DOMAIN m.returnedPrivKeys /\ m.returnedPrivKeys[addr] \in Wifs
    \/ addr \in DOMAIN m.returnedScripts /\ m.returnedScripts[addr] \in Scripts

\* C6: under every interleaving, while a caller holds the release handle
\* of a private key or script that PrivateKey or RedeemScript returned, the
\* manager has not zeroed or dropped that secret: no Lock, failing Unlock,
\* ConvertToWatchingOnly or Close clears the maps before the handle is
\* invoked, and the manager is not yet locked.
C6_HeldSecretsSurvive ==
    \A t \in Threads : \A addr \in held[t] :
        /\ Kept(addr)
        /\ ~m.locked
        /\ secretsReaders > 0

\* A thread holds the handle of a returned script while another thread's
\* ConvertToWatchingOnly, its store writes done, waits for the handle.
C6_Witness ==
    \E t, u \in Threads :
        /\ held[t] = { ScriptHash(sc) : sc \in Scripts }
        /\ pc[u] = InLock("ConvertToWatchingOnly", ErrNone)
        /\ db.watchingOnly /\ ~m.watchingOnly

\* C7: when holders of release handles make no other manager call before
\* they release, and every handle is released in the end, a Lock() waiting
\* in lock() completes and the manager becomes locked, other threads'
\* PrivateKey and RedeemScript calls notwithstanding.
C7_PendingLockCompletes ==
    \A t \in Threads :
        (pc[t] = InLock("Lock", ErrNone))
            ~> (m.locked /\ ret = [op |-> "Lock", err |-> ErrNone])

\* Lock() waits for a handle another thread holds, while a third thread's
\* PrivateKey call is past its watching-only check and waits for the mutex.
C7_Witness ==
    \E t, u, v \in Threads :
        /\ pc[t] = InLock("Lock", ErrNone)
        /\ held[u] # {}
        /\ pc[v] = Checked("PrivateKey")

\* C8: once the manager is closed, every call that returns reports an
\* error.
C8_ClosedRejectsCalls ==
    [][(m.closed /\ ret = NoResult /\ ret' # NoResult)
           => ret'.err # ErrNone]_vars

\* The store store holds no private-tier ciphertext.
NoPrivateTier(store) ==
    /\ store.cryptoPriv = Nil
    /\ store.cryptoScript = Nil
    /\ \A a \in DOMAIN store.accounts :
           store.accounts[a].privKeyEncrypted = Nil
    /\ \A h \in DOMAIN store.addresses :
           store.addresses[h].encryptedPriv = Nil

\* The private-tier slots of store hold nothing private: there is no
\* coin-type private key, and an account's private slot seals its extended
\* public key.
OnlyPlaceholders(store) ==
    /\ store.coinTypePriv = Nil
    /\ \A a \in DOMAIN store.accounts :
           LET c == store.accounts[a].privKeyEncrypted
           IN  c = Nil \/ Decrypt(CryptoKeyPriv, c)[2][1] = "xpub"

\* C9 as stated: whenever the manager is watching-only the store holds no
\* private-tier ciphertext, no wrapped crypto private or script key, no
\* wrapped account private key, no wrapped imported private key or script.
C9_NoPrivateTierInStore ==
    m.watchingOnly => NoPrivateTier(db)

\* C9, amended: whenever the manager is watching-only no address row of the
\* store holds a wrapped private key or script, also after ImportPrivateKey,
\* ImportScript and a public ChangePassphrase; a store converted by
\* ConvertToWatchingOnly holds no private-tier ciphertext at all; a store
\* made by createWatchOnly holds in its private-tier slots only
\* placeholders: generated crypto keys that seal no private key, no
\* coin-type private key, and the account's extended public key in the
\* account's private slot.
C9_WatchingOnlyStore ==
    m.watchingOnly =>
        /\ \A h \in DOMAIN db.addresses : db.addresses[h].encryptedPriv = Nil
        /\ db.masterPriv = Nil => NoPrivateTier(db)
        /\ db.masterPriv # Nil => OnlyPlaceholders(db)

\* A private key and a script were imported into a store converted to
\* watching-only, and the public passphrase changed afterwards.
C9_Witness ==
    /\ m.watchingOnly
    /\ db.masterPriv = Nil
    /\ ret = [op |-> "ChangePassphrase", err |-> ErrNone]
    /\ \A w \in Wifs : existsAddress(db, PubKeyHash(w))
    /\ \A sc \in Scripts : existsAddress(db, ScriptHash(sc))
    /\ \A a \in DOMAIN db.accounts : db.accounts[a].privKeyEncrypted = Nil
    /\ Cardinality(DOMAIN db.accounts) = 3

\* C10: CoinTypePrivKey on a watching-only manager returns
\* ErrWatchingOnly.
C10_CoinTypePrivKeyWatchingOnly ==
    [][(m.watchingOnly /\ Returns("CoinTypePrivKey"))
           => ret'.err = ErrWatchingOnly]_vars

\* C11: a call that the caller's function of ForEachAccountAddress or
\* ForEachActiveAddress makes on the same manager (Address, IsLocked)
\* completes: whenever such a call waits for m.mtx it is granted it in the
\* end and returns into the caller's function.
C11_ReentrantCallCompletes ==
    \A t \in Threads :
        (pc[t].at = "wait" /\ pc[t].outer # Idle) ~> (pc[t].at = "callback")

\* C12: a Lock, Unlock, NewAccount, PrivateKey, RedeemScript or private
\* ChangePassphrase that is past its watching-only check runs the rest of
\* its body on a manager that is not watching-only: it never executes
\* against the state ConvertToWatchingOnly left.
C12_LinearisableAgainstConvert ==
    [][\A t \in Threads :
          (pc[t].at = "checked" /\ pc'[t] # pc[t]) => ~m.watchingOnly]_vars

\* With the keys of manager mgr every private key of store opens: the
\* coin-type key, the account keys and the imported keys.
OpensPrivateKeys(mgr, store) ==
    /\ CanDecrypt(mgr.cryptoKeyPriv, store.coinTypePriv)
    /\ \A a \in DOMAIN store.accounts :
           store.accounts[a].privKeyEncrypted # Nil
               => CanDecrypt(mgr.cryptoKeyPriv,
                             store.accounts[a].privKeyEncrypted)
    /\ \A h \in DOMAIN store.addresses :
           (store.addresses[h].type = "imported"
                /\ store.addresses[h].encryptedPriv # Nil)
               => CanDecrypt(mgr.cryptoKeyPriv,
                             store.addresses[h].encryptedPriv)

\* C13: a ChangePassphrase that succeeds leaves the locked flag as it was;
\* and on a locked manager Unlock with the passphrase the last private
\* change set succeeds and opens every private key of the store, while
\* Unlock with any other, the replaced one included, fails with
\* ErrWrongPassphrase and leaves the manager locked.
C13_NewPassphraseUnlocks ==
    [][/\ (Returns("ChangePassphrase") /\ ret'.err = ErrNone)
            => m'.locked = m.locked
       /\ \A t \in Threads, pw \in Passphrases :
            (m.locked /\ ~m.watchingOnly /\ Unlock(t, pw, "none"))
                => IF pw = privPw
                   THEN /\ ret'.err = ErrNone
                        /\ ~m'.locked
                        /\ OpensPrivateKeys(m', db')
                   ELSE /\ ret'.err = ErrWrongPassphrase
                        /\ m'.locked]_vars

\* Unlock has succeeded with the passphrase that a private ChangePassphrase
\* put in the place of a different one, on a store that holds an imported
\* private key.
C13_Witness ==
    /\ ret = [op |-> "Unlock", err |-> ErrNone]
    /\ ~m.locked
    /\ oldPw # "" /\ oldPw # privPw
    /\ m.masterKeyPriv.Key = MasterKeyOf(privPw, m.masterKeyPriv.Parameters[3])
    /\ \E w \in Wifs : existsAddress(db, PubKeyHash(w))

\* C14: a ChangePassphrase that returns ErrWrongPassphrase or ErrCrypto,
\* the failures that come before its store writes, leaves the store and
\* the manager as they were: the live master keys, the wrapped crypto
\* keys, the salt, the passphrase hash and the locked flag included.
C14_FailedChangeKeepsState ==
    [][(Returns("ChangePassphrase")
            /\ ret'.err \in {ErrWrongPassphrase, ErrCrypto})
           => (m' = m /\ db' = db)]_vars

\* A ChangePassphrase has failed on a wrong old passphrase while the
\* manager was locked, its master private key zeroed, on a store whose
\* public passphrase an earlier call changed.
C14_Witness ==
    /\ ret = [op |-> "ChangePassphrase", err |-> ErrWrongPassphrase]
    /\ m.locked /\ ~m.watchingOnly
    /\ m.masterKeyPriv.Key = ZeroKey
    /\ db.masterPriv[2] = "pb"
    /\ db.masterPub[2] = "pb"

\* The BIP0044 accounts of store are the numbers 0 .. last_account.
Dense(store) ==
    DOMAIN store.accounts \ {ImportedAddrAccount} = 0 .. store.lastAccount

\* C15: in every state the BIP0044 accounts of the store are exactly
\* 0 .. last_account; a NewAccount that succeeds adds the one account
\* last_account + 1, which it returns, and sets last_account to it; a
\* NewAccount that fails leaves the store as it was; and last_account
\* never decreases, so that no two calls return the same number.
C15_AccountsDense ==
    /\ []Dense(db)
    /\ [][/\ db'.lastAccount >= db.lastAccount
          /\ Returns("NewAccount") =>
                IF ret'.err = ErrNone
                THEN /\ db'.lastAccount = db.lastAccount + 1
                     /\ db'.lastAccount \notin DOMAIN db.accounts
                     /\ DOMAIN db'.accounts =
                            DOMAIN db.accounts \cup {db'.lastAccount}
                ELSE db' = db]_vars

\* A second NewAccount has succeeded, under another name than the first,
\* while another thread is inside a NewAccount call of its own, past its
\* watching-only check.
C15_Witness ==
    /\ ret = [op |-> "NewAccount", err |-> ErrNone]
    /\ db.lastAccount = 2
    /\ db.accounts[1].name # db.accounts[2].name
    /\ \E t \in Racers : pc[t] = Checked("NewAccount")

\* Name is the name of an account of store.
Assigned(store, name) ==
    \E a \in DOMAIN store.accounts : store.accounts[a].name = name

\* C16: on a manager that is not watching-only, NewAccount returns
\* ErrLocked when the manager is locked; unlocked, it returns
\* ErrInvalidAccount for the empty name and for "imported", and
\* ErrDuplicateAccount for any other name an account already has; in each
\* of these cases the store, last_account included, is left as it was.
C16_NewAccountRejects ==
    [][\A t \in Threads, name \in ManyNames :
          (~m.watchingOnly /\ Waiting(t, "NewAccount")
               /\ NewAccountBody(t, FALSE, name))
            => /\ m.locked => (ret'.err = ErrLocked /\ db' = db)
               /\ (~m.locked /\ name \in {"", ImportedAddrAccountName})
                     => (ret'.err = ErrInvalidAccount /\ db' = db)
               /\ (~m.locked /\ name \notin {"", ImportedAddrAccountName}
                       /\ Assigned(db, name))
                     => (ret'.err = ErrDuplicateAccount /\ db' = db)]_vars

\* NewAccount has failed on an unlocked manager for a name that is taken,
\* after an earlier NewAccount created an account.
C16_Witness ==
    /\ ret = [op |-> "NewAccount", err |-> ErrDuplicateAccount]
    /\ ~m.locked
    /\ db.lastAccount = 1
    /\ db.accounts[1].name # defaultAccountName
    /\ db.accounts[DefaultAccountNum].name = defaultAccountName

\* The imported account, and no other, is named "imported".
ImportedNameReserved(store) ==
    /\ store.accounts[ImportedAddrAccount].name = ImportedAddrAccountName
    /\ \A a \in DOMAIN store.accounts \ {ImportedAddrAccount} :
           store.accounts[a].name # ImportedAddrAccountName
    /\ store.acctNameIdx[ImportedAddrAccountName] = ImportedAddrAccount

\* C18: in every state the imported account, and no other account, is
\* named "imported"; RenameAccount of the imported account returns
\* ErrInvalidAccount whatever the name; and RenameAccount or NewAccount
\* with the name "imported" fails; each of these leaves the store and the
\* manager, its account cache included, as they were.
C18_ImportedNameReserved ==
    /\ []ImportedNameReserved(db)
    /\ [][/\ \A t \in Threads, name \in ManyNames :
                RenameAccount(t, ImportedAddrAccount, name)
                  => (ret'.err = ErrInvalidAccount /\ db' = db /\ m' = m)
          /\ \A t \in Threads, account \in 0 .. ImportedAddrAccount :
                RenameAccount(t, account, ImportedAddrAccountName)
                  => (ret'.err # ErrNone /\ db' = db /\ m' = m)
          /\ \A t \in Threads :
                (Waiting(t, "NewAccount")
                     /\ NewAccountBody(t, FALSE, ImportedAddrAccountName))
                  => (ret'.err # ErrNone /\ db' = db /\ m' = m)]_vars

\* RenameAccount of the imported account has been refused, on a store
\* where the default account was renamed while it was in the cache and a
\* new account took the name "default".
C18_Witness ==
    /\ ret = [op |-> "RenameAccount", err |-> ErrInvalidAccount]
    /\ DefaultAccountNum \in DOMAIN m.acctInfo
    /\ m.acctInfo[DefaultAccountNum].acctName = "b"
    /\ db.accounts[DefaultAccountNum].name = "b"
    /\ db.lastAccount = 1
    /\ db.accounts[1].name = defaultAccountName

\* C17: an account number above MaxAccountNum is refused with
\* ErrAccountNumTooHigh and nothing is written, both by
\* SyncAccountToAddrIndex for such an account and by a NewAccount that
\* passes every earlier check (manager not watching-only and unlocked, name
\* valid and not taken) when last_account is already MaxAccountNum.
C17_AccountNumTooHigh ==
    [][/\ \A account \in SyncAccounts, k \in SyncIndexes,
             branch \in SyncBranches :
                (account > MaxAccountNum
                     /\ SyncAccountToAddrIndex("t1", account, k, branch))
                  => (ret'.err = ErrAccountNumTooHigh /\ db' = db)
       /\ \A name \in SyncNames :
             (/\ db.lastAccount = MaxAccountNum
              /\ ~m.watchingOnly
              /\ ~m.locked
              /\ ValidateAccountName(name) = ErrNone
              /\ ~Assigned(db, name)
              /\ NewAccount("t1", name))
               => (ret'.err = ErrAccountNumTooHigh /\ db' = db)]_vars

\* The child of the account at branch and index j is covered: its
\* derivation is invalid, or its address is in the store.
Covered(store, account, branch, j) ==
    \/ <<account, branch, j>> \in InvalidChildren
    \/ existsAddress(store, PubKeyHash(ChildKey(account, branch, j)))

\* C19: after a successful SyncAccountToAddrIndex(account, k, branch),
\* every index j <= k of that branch is an invalid child or has its address
\* in the store, whatever the store held before the call.
C19_SyncCoversPrefix ==
    [][\A account \in SyncAccounts, k \in SyncIndexes,
          branch \in SyncBranches :
             (SyncAccountToAddrIndex("t1", account, k, branch)
                  /\ ret'.err = ErrNone)
               => \A j \in 0 .. k : Covered(db', account, branch, j)]_vars

\* C20: for an account of the store, SyncAccountToAddrIndex returns
\* ErrBranch for a branch other than the external and the internal one,
\* and ErrTooManyAddresses for one of these branches and an index above
\* MaxAddressesPerAccount; for the imported account it always fails; and a
\* call that fails writes no address row.
C20_SyncRejects ==
    [][\A account \in SyncAccounts, k \in SyncIndexes,
          branch \in SyncBranches :
             SyncAccountToAddrIndex("t1", account, k, branch)
               => /\ (account <= MaxAccountNum
                        /\ account \in DOMAIN db.accounts
                        /\ branch \notin {ExternalBranch, InternalBranch})
                       => ret'.err = ErrBranch
                  /\ (account <= MaxAccountNum
                        /\ account \in DOMAIN db.accounts
                        /\ branch \in {ExternalBranch, InternalBranch}
                        /\ k > MaxAddressesPerAccount)
                       => ret'.err = ErrTooManyAddresses
                  /\ account = ImportedAddrAccount => ret'.err # ErrNone
                  /\ ret'.err # ErrNone => db' = db]_vars

\* A sync of the default account to an index above MaxAddressesPerAccount
\* has been refused on a store that an earlier sync filled with the
\* addresses of the external branch up to MaxAddressesPerAccount.
C20_Witness ==
    /\ ret = [op |-> "SyncAccountToAddrIndex", err |-> ErrTooManyAddresses]
    /\ \A j \in 0 .. MaxAddressesPerAccount :
          existsAddress(db, PubKeyHash(ChildKey(DefaultAccountNum,
                                                ExternalBranch, j)))

\* C21: SyncAccountToAddrIndex on account n attributes every row it creates
\* to n, ImportPrivateKey and ImportScript attribute the row they create to
\* the imported account, no step changes or removes the attribution of a
\* stored address, and AddrAccount returns the attribution of the address.
C21_AddrAccountOfRow ==
    [][/\ \A account \in AddrAccounts, k \in AddrIndexes,
             branch \in AddrBranches :
                SyncAccountToAddrIndex("t1", account, k, branch)
                  => \A h \in DOMAIN db'.addresses \ DOMAIN db.addresses :
                         /\ fetchAddrAccount(db', h) = account
                         /\ \E i \in 0 .. k :
                                h = PubKeyHash(ChildKey(account, branch, i))
       /\ \A wif \in Wifs \cup ChildWifs :
             (ImportPrivateKey("t1", wif) /\ ret'.err = ErrNone)
               => /\ ~existsAddress(db, PubKeyHash(wif))
                  /\ existsAddress(db', PubKeyHash(wif))
                  /\ fetchAddrAccount(db', PubKeyHash(wif))
                         = ImportedAddrAccount
       /\ \A script \in Scripts :
             (ImportScript("t1", script) /\ ret'.err = ErrNone)
               => /\ ~existsAddress(db, ScriptHash(script))
                  /\ existsAddress(db', ScriptHash(script))
                  /\ fetchAddrAccount(db', ScriptHash(script))
                         = ImportedAddrAccount
       /\ \A h \in DOMAIN db.addresses :
             /\ existsAddress(db', h)
             /\ fetchAddrAccount(db', h) = fetchAddrAccount(db, h)
       /\ \A addr \in AddrHashes :
             (AddrAccount("t1", addr) /\ existsAddress(db, addr))
               => /\ ret'.err = ErrNone
                  /\ ret'.val = db.addresses[addr].account]_vars

\* AddrAccount has returned account 1 for an address that a sync of
\* account 1 created, after that account was renamed, on a store where the
\* key of a child of the default account is an imported address.
C21_Witness ==
    /\ ret = [op |-> "AddrAccount", err |-> ErrNone, val |-> 1]
    /\ db.accounts[1].name = "b"
    /\ existsAddress(db, PubKeyHash(ChildKey(1, InternalBranch, 1)))
    /\ \E w \in ChildWifs :
          /\ existsAddress(db, PubKeyHash(w))
          /\ db.addresses[PubKeyHash(w)].type = "imported"
          /\ fetchAddrAccount(db, PubKeyHash(w)) = ImportedAddrAccount

\* The order of the stored indexes, the sentinel below every child.
IndexLeq(a, b) == Inc(a) <= Inc(b)

\* The last used and the last returned child of a branch of an account row.
LastUsed(row, branch) ==
    IF branch = ExternalBranch THEN row.lastUsedExternalIndex
    ELSE row.lastUsedInternalIndex
LastReturned(row, branch) ==
    IF branch = ExternalBranch THEN row.lastReturnedExternalIndex
    ELSE row.lastReturnedInternalIndex

\* C22: MarkUsedChildIndex and MarkUsed with a child at or below the last
\* used child of the branch, and MarkReturnedChildIndex with a child at or
\* below the last returned one, leave the store as it was; and no step
\* lowers a last used or last returned index of an account.
C22_MarksMonotone ==
    [][/\ \A account \in MarkAccounts, branch \in AddrBranches,
             child \in MarkIndexes :
                /\ (/\ ret'.op = "MarkUsedChildIndex"
                     /\ account \in DOMAIN db.accounts
                     /\ IndexLeq(child, LastUsed(db.accounts[account], branch))
                     /\ MarkUsedChildIndex("t1", account, branch, child))
                      => (db' = db /\ ret'.err = ErrNone)
                /\ (/\ ret'.op = "MarkReturnedChildIndex"
                     /\ account \in DOMAIN db.accounts
                     /\ IndexLeq(child,
                                 LastReturned(db.accounts[account], branch))
                     /\ MarkReturnedChildIndex("t1", account, branch, child))
                      => (db' = db /\ ret'.err = ErrNone)
       /\ \A addr \in KeyHashes :
             (/\ ret'.op = "MarkUsed"
              /\ existsAddress(db, addr)
              /\ db.addresses[addr].type = "chain"
              /\ IndexLeq(db.addresses[addr].index,
                          LastUsed(db.accounts[db.addresses[addr].account],
                                   db.addresses[addr].branch))
              /\ MarkUsed("t1", addr))
               => (db' = db /\ ret'.err = ErrNone)
       /\ \A account \in DOMAIN db.accounts, branch \in AddrBranches :
             /\ account \in DOMAIN db'.accounts
             /\ IndexLeq(LastUsed(db.accounts[account], branch),
                         LastUsed(db'.accounts[account], branch))
             /\ IndexLeq(LastReturned(db.accounts[account], branch),
                         LastReturned(db'.accounts[account], branch))]_vars

\* MarkReturnedChildIndex has returned without an error on a store whose
\* new account has child 1 of the internal branch returned and no child of
\* it used, and whose default account has child 1 of the external branch
\* used.
C22_Witness ==
    /\ ret = [op |-> "MarkReturnedChildIndex", err |-> ErrNone]
    /\ 1 \in DOMAIN db.accounts
    /\ db.accounts[1].lastReturnedInternalIndex = 1
    /\ db.accounts[1].lastUsedInternalIndex = NoIndex
    /\ db.accounts[DefaultAccountNum].lastUsedExternalIndex = 1

\* Every account row has, on both branches, its last returned child at or
\* above its last used child.
ReturnedCoversUsed(store) ==
    \A account \in DOMAIN store.accounts, branch \in AddrBranches :
        IndexLeq(LastUsed(store.accounts[account], branch),
                 LastReturned(store.accounts[account], branch))

\* C23: on both branches of every account the last returned child is at or
\* above the last used child, the sentinel being the lowest; and after a
\* MarkUsedChildIndex or a MarkUsed that returns without an error for child
\* c of a branch, the last returned child of that branch is at or above c.
C23_ReturnedCoversUsed ==
    /\ []ReturnedCoversUsed(db)
    /\ [][/\ \A account \in MarkAccounts, branch \in AddrBranches,
                 child \in MarkIndexes :
                    (/\ ret'.op = "MarkUsedChildIndex"
                     /\ ret'.err = ErrNone
                     /\ MarkUsedChildIndex("t1", account, branch, child))
                      => IndexLeq(child,
                                  LastReturned(db'.accounts[account], branch))
          /\ \A addr \in KeyHashes :
                (/\ ret'.op = "MarkUsed"
                 /\ ret'.err = ErrNone
                 /\ existsAddress(db, addr)
                 /\ db.addresses[addr].type = "chain"
                 /\ MarkUsed("t1", addr))
                  => IndexLeq(db.addresses[addr].index,
                        LastReturned(db'.accounts[db.addresses[addr].account],
                                     db.addresses[addr].branch))]_vars

\* MarkUsedChildIndex has marked child 1 of the external branch of the new
\* account, of which no child had been used, and the last returned child
\* of the branch is 1.
C23_Witness ==
    /\ ret = [op |-> "MarkUsedChildIndex", err |-> ErrNone]
    /\ 1 \in DOMAIN db.accounts
    /\ db.accounts[1].lastUsedExternalIndex = 1
    /\ db.accounts[1].lastReturnedExternalIndex = 1
    /\ db.accounts[1].lastUsedInternalIndex = NoIndex

\* C24: MarkUsed on the address of an imported key or script returns
\* without an error and leaves the store as it was; on a chained address it
\* returns what MarkUsedChildIndex returns for the account, branch and
\* index of the row, and leaves the store that call leaves.
C24_MarkUsedByRow ==
    [][\A addr \in KeyHashes :
          (ret'.op = "MarkUsed" /\ existsAddress(db, addr)
               /\ MarkUsed("t1", addr))
            => LET a == db.addresses[addr]
                   byIndex == markUsedChildIndex(db, a.account, a.branch,
                                                 a.index)
               IN  IF a.type = "chain"
                   THEN db' = byIndex.db /\ ret'.err = byIndex.err
                   ELSE db' = db /\ ret'.err = ErrNone]_vars

\* MarkUsed has returned on a store with an imported key and a script,
\* where child 1 of the external branch of the default account is a stored
\* address and the last used child of the branch.
C24_Witness ==
    /\ ret = [op |-> "MarkUsed", err |-> ErrNone]
    /\ \E w \in Wifs : existsAddress(db, PubKeyHash(w))
    /\ \E sc \in Scripts : existsAddress(db, ScriptHash(sc))
    /\ existsAddress(db, PubKeyHash(ChildKey(DefaultAccountNum,
                                             ExternalBranch, 1)))
    /\ db.accounts[DefaultAccountNum].lastUsedExternalIndex = 1
    /\ db.accounts[DefaultAccountNum].lastReturnedExternalIndex = 1

\* C25: on a manager that is not watching-only, PrivateKey and RedeemScript
\* of a stored address fail with ErrLocked when the manager is locked;
\* unlocked, PrivateKey returns the key derived at the account, branch and
\* index of a chained row, the imported key of an imported row, and
\* ErrInput for a script row, and RedeemScript returns the imported script
\* of a script row and ErrInput for the other rows.
C25_SecretOfRow ==
    [][\A addr \in KeyHashes :
          LET a == db.addresses[addr] IN
          /\ (/\ ret'.op = "PrivateKey"
               /\ ~m.watchingOnly
               /\ existsAddress(db, addr)
               /\ PrivateKey("t1", addr))
                => IF m.locked THEN ret'.err = ErrLocked
                   ELSE CASE a.type = "chain" ->
                               /\ ret'.err = ErrNone
                               /\ m'.returnedPrivKeys[addr]
                                     = ChildKey(a.account, a.branch, a.index)
                          [] a.type = "imported" ->
                               /\ ret'.err = ErrNone
                               /\ \E wif \in Wifs \cup ChildWifs :
                                     /\ addr = PubKeyHash(wif)
                                     /\ m'.returnedPrivKeys[addr] = wif
                          [] OTHER -> ret'.err = ErrInput
          /\ (/\ ret'.op = "RedeemScript"
               /\ ~m.watchingOnly
               /\ existsAddress(db, addr)
               /\ RedeemScript("t1", addr))
                => IF m.locked THEN ret'.err = ErrLocked
                   ELSE IF a.type = "script"
                   THEN /\ ret'.err = ErrNone
                        /\ \E script \in Scripts :
                              /\ addr = ScriptHash(script)
                              /\ m'.returnedScripts[addr] = script
                   ELSE ret'.err = ErrInput]_vars

\* PrivateKey has returned the key of child 0 of the external branch of the
\* default account, on a store that also holds the imported key of child 1
\* and a script.
C25_Witness ==
    LET first == PubKeyHash(ChildKey(DefaultAccountNum, ExternalBranch, 0)) IN
    /\ ret = [op |-> "PrivateKey", err |-> ErrNone]
    /\ first \in DOMAIN m.returnedPrivKeys
    /\ first \in held["t1"]
    /\ db.addresses[first].type = "chain"
    /\ \E w \in ChildWifs : /\ existsAddress(db, PubKeyHash(w))
                             /\ db.addresses[PubKeyHash(w)].type = "imported"
    /\ \E sc \in Scripts : existsAddress(db, ScriptHash(sc))

RowView(store, addr) ==
    LET a == store.addresses[addr] IN
    [ account |-> a.account,
      imported |-> a.type # "chain",
      internal |-> a.type = "chain" /\ a.branch = InternalBranch,
      script |-> a.type = "script",
      address |-> IF a.type = "chain"
                  THEN PubKeyHash(ChildKey(a.account, a.branch, a.index))
                  ELSE addr ]

\* C27: Address of an address the store holds returns without an error the
\* managed address that the row describes, whether the manager is locked,
\* unlocked or watching-only, and leaves the store and the lock state as
\* they were.
C27_AddressAnyLockState ==
    [][\A addr \in AddrHashes :
          (ret'.op = "Address" /\ existsAddress(db, addr)
               /\ Address("t1", addr))
            => /\ ret'.err = ErrNone
               /\ ret'.val = RowView(db, addr)
               /\ m'.locked = m.locked
               /\ m'.watchingOnly = m.watchingOnly
               /\ db' = db]_vars

\* Address has returned the chained address of child 1 of the internal
\* branch of account 1 on a manager that ConvertToWatchingOnly converted
\* after the account was created, with the account not in the cache before
\* the call.
C27_Witness ==
    /\ ret.op = "Address"
    /\ ret.err = ErrNone
    /\ ret.val.account = 1
    /\ ret.val.internal
    /\ ret.val.address = PubKeyHash(ChildKey(1, InternalBranch, 1))
    /\ m.watchingOnly
    /\ db.watchingOnly
    /\ m.acctInfo[1].acctKeyPriv = NoKey

\* Manager mgr holds no private-tier plaintext: no account private key, no
\* private or script crypto key, no derived master private key, no
\* passphrase hash and no returned secret.
NoPrivatePlaintext(mgr) ==
    /\ \A a \in DOMAIN mgr.acctInfo : mgr.acctInfo[a].acctKeyPriv = NoKey
    /\ mgr.cryptoKeyPriv \in {ZeroKey, NoKey}
    /\ mgr.cryptoKeyScript \in {ZeroKey, NoKey}
    /\ mgr.masterKeyPriv.Key \in {ZeroKey, NoKey}
    /\ mgr.hashedPrivPassphrase = ZeroHash
    /\ mgr.returnedPrivKeys = EmptyMap
    /\ mgr.returnedScripts = EmptyMap

\* The public passphrase the stored master public key parameters were
\* made with.
PubPassphraseOf(store) == store.masterPub[2]

\* C28: opening the store with its public passphrase returns a manager
\* that is locked, whose watching-only flag is the stored one, and that
\* holds no private-tier plaintext; opening it with another passphrase
\* fails with ErrWrongPassphrase and yields no manager.
C28_OpenedLocked ==
    [][\A pw \in Passphrases, salt \in Salts :
          (ret'.op = "Open" /\ Open("t1", pw, salt))
            => IF pw = PubPassphraseOf(db)
               THEN /\ ret'.err = ErrNone
                    /\ m'.locked
                    /\ m'.watchingOnly = db.watchingOnly
                    /\ NoPrivatePlaintext(m')
                    /\ db' = db
               ELSE /\ ret'.err = ErrWrongPassphrase
                    /\ m' = m
                    /\ db' = db]_vars

\* Open has returned a manager for a store that is not watching-only,
\* holds an imported key, and had its public passphrase changed.
C28_Witness ==
    /\ ret = [op |-> "Open", err |-> ErrNone]
    /\ PubPassphraseOf(db) = "pb"
    /\ ~db.watchingOnly
    /\ \E w \in Wifs : existsAddress(db, PubKeyHash(w))
    /\ m.locked
    /\ m.acctInfo = EmptyMap

\* C29: a ciphertext that Encrypt returned for a key type opens again under
\* that key type: whenever Decrypt selects the key of the type, it returns
\* the plaintext that was encrypted, whatever Lock, Unlock and
\* ChangePassphrase calls came between the two; the data-encryption keys
\* are the same after a lock cycle and after a passphrase change.
C29_DecryptOfEncrypt ==
    [][\A s \in sealed :
         (/\ ret'.op = "Decrypt"
          /\ selectCryptoKey(m, s.keyType) = ErrNone
          /\ ManagerDecrypt("t1", s.keyType, s.out))
         => (ret'.err = ErrNone /\ ret'.val.out = s.in)]_vars

\* A private ciphertext was decrypted to its plaintext after a Lock and
\* under another private passphrase than the one it was encrypted under.
C29_Witness ==
    /\ ret.op = "Decrypt"
    /\ ret.err = ErrNone
    /\ \E s \in sealed :
          /\ s.keyType = CKTPrivate
          /\ ret.val.keyType = CKTPrivate
          /\ ret.val.in = s.out
          /\ ret.val.out = s.in
          /\ s.relocked
          /\ s.privPw # privPw

\* C30: every access to the manager's in-memory fields is made under
\* m.mtx in the right mode: a field is written only by a thread that holds
\* the mutex for writing, WatchingOnly, IsLocked and AccountProperties read
\* only while they hold it, and no two threads are about to access one
\* field with one of them writing.
C30_LockDiscipline ==
    /\ \A t \in Threads : \A a \in Accesses(t) :
          /\ a.write => HeldMode(t) = "write"
          /\ HeldMode(t) # "none"
    /\ \A t, u \in Threads : \A a \in Accesses(t), b \in Accesses(u) :
          t # u => ~Conflict(a, b)

\* C31: between calls, while the manager is unlocked the in-memory crypto
\* private key and crypto script key are the plaintexts of the wrapped keys
\* in the store under the master private key; while it is locked both are
\* zeroed or removed; until Close the crypto public key is the plaintext of
\* the stored wrapped public key.
C31_CryptoKeysUnwrapped ==
    /\ (MtxFree /\ ~m.locked) =>
          /\ CanDecrypt(m.masterKeyPriv.Key, db.cryptoPriv)
          /\ m.cryptoKeyPriv = Decrypt(m.masterKeyPriv.Key, db.cryptoPriv)
          /\ CanDecrypt(m.masterKeyPriv.Key, db.cryptoScript)
          /\ m.cryptoKeyScript = Decrypt(m.masterKeyPriv.Key, db.cryptoScript)
    /\ m.locked =>
          /\ m.cryptoKeyPriv \in {ZeroKey, NoKey}
          /\ m.cryptoKeyScript \in {ZeroKey, NoKey}
    /\ ~m.closed =>
          /\ CanDecrypt(m.masterKeyPub.Key, db.cryptoPub)
          /\ m.cryptoKeyPub = Decrypt(m.masterKeyPub.Key, db.cryptoPub)

\* C32: for every chained address row (account, branch, index) of the
\* store, every index j < index of that branch has an address row too (a
\* child the derivation rejects as invalid has none and is not counted).
C32_ChainedRowsDense ==
    \A h \in DOMAIN db.addresses :
        db.addresses[h].type = "chain" =>
            \A j \in 0 .. db.addresses[h].index - 1 :
                Covered(db, db.addresses[h].account, db.addresses[h].branch, j)

\* C33: the loop of syncAccountToAddrIndex derives the target index
\* first and then strictly decreasing indexes, none of them greater than the
\* target, and derives nothing more once it has derived child 0.
C33_LoopDescends ==
    ret.op = "syncAccountToAddrIndex" =>
        LET v == ret.val.visited IN
        /\ v[1] = ret.val.target
        /\ \A i \in 1 .. Len(v) - 1 : v[i + 1] < v[i]
        /\ \A i \in 1 .. Len(v) : v[i] <= ret.val.target
        /\ \A i \in 1 .. Len(v) : v[i] = 0 => i = Len(v)

\* C34: between calls, every account in the account cache has its live
\* private extended key exactly when the manager is unlocked.
C34_CachedKeyIffUnlocked ==
    MtxFree =>
        \A a \in DOMAIN m.acctInfo :
            (m.acctInfo[a].acctKeyPriv # NoKey) <=> ~m.locked

\* A successful Unlock has just derived the private key of an account that
\* was in the cache.
C34_Witness ==
    /\ ret.op = "Unlock"
    /\ ret.err = ErrNone
    /\ ~m.locked
    /\ DOMAIN m.acctInfo # {}
    /\ \A a \in DOMAIN m.acctInfo : m.acctInfo[a].acctKeyPriv # NoKey

\* C35: an Encrypt or Decrypt that has just returned (the call leaves the
\* manager as it was) failed with ErrLocked for the private and the script
\* key type when the manager is locked or watching-only, used a key that
\* is neither zeroed nor removed when it served one of these two types,
\* did not fail on the state of the manager for the public key type, and
\* failed with ErrInvalidKeyType for any other key type.
C35_CryptByKeyType ==
    ret.op \in {"Encrypt", "Decrypt"} =>
        LET keyType == ret.val.keyType IN
        /\ (keyType \in {CKTPrivate, CKTScript}
              /\ (m.locked \/ m.watchingOnly)) => ret.err = ErrLocked
        /\ (keyType \in {CKTPrivate, CKTScript} /\ ret.err # ErrLocked) =>
              selectedCryptoKey(m, keyType) \notin {ZeroKey, NoKey}
        /\ keyType = CKTPublic =>
              /\ ret.err \in {ErrNone, ErrCrypto}
              /\ ret.op = "Encrypt" => ret.err = ErrNone
        /\ keyType \notin {CKTPublic, CKTPrivate, CKTScript} =>
              ret.err = ErrInvalidKeyType

\* C36: a thread that holds a handle from PrivateKey or RedeemScript and
\* calls another operation of the manager while another thread calls Lock
\* is never stuck: no state is reached in which the holder waits for m.mtx
\* while the thread that owns m.mtx waits inside Lock for the read holds
\* that only the holder can give back.
C36_HolderNeverStuck ==
    ~ \E t, u \in Threads :
         /\ pc[t].at = "wait"
         /\ held[t] # {}
         /\ pc[u].at = "lock"
         /\ pc[u].op = "Lock"
         /\ secretsReaders = HeldCount(t)

\* What a fresh open of the store would load, next to the manager's own
\* fields: the watching-only flag, the wrapped crypto keys, the parameters
\* of the master keys, and the names of the cached accounts.
MatchesStore(mgr, store) ==
    LET fresh == loadManager(store, PubPassphraseOf(store),
                             mgr.privPassphraseSalt)
    IN  /\ mgr.watchingOnly = fresh.watchingOnly
        /\ mgr.cryptoKeyPrivEncrypted = fresh.cryptoKeyPrivEncrypted
        /\ mgr.cryptoKeyScriptEncrypted = fresh.cryptoKeyScriptEncrypted
        /\ mgr.masterKeyPub.Parameters = fresh.masterKeyPub.Parameters
        /\ ~mgr.watchingOnly =>
              mgr.masterKeyPriv.Parameters = fresh.masterKeyPriv.Parameters
        /\ \A a \in DOMAIN mgr.acctInfo :
              /\ a \in DOMAIN store.accounts
              /\ mgr.acctInfo[a].acctName = store.accounts[a].name

\* C37: between calls and with no transaction open, the manager's
\* watching-only flag, wrapped crypto keys, master key parameters and
\* cached account names are those a fresh open of the store would load,
\* also after the transaction around a successful ChangePassphrase,
\* ConvertToWatchingOnly or RenameAccount was rolled back.
C37_MemoryMatchesStore ==
    (~txn.open /\ MtxFree /\ ~m.closed) => MatchesStore(m, db)

\* The handles that callers hold: one for each thread and address held.
HandlesOut ==
    { p \in Threads \X UNION { held[t] : t \in Threads } : p[2] \in held[p[1]] }

\* Map after holds every entry of map before, unchanged.
Extends(after, before) ==
    \A a \in DOMAIN before : a \in DOMAIN after /\ after[a] = before[a]

\* A PrivateKey or RedeemScript call returns in this step.
SecretReturns ==
    /\ ret = NoResult
    /\ ret' # NoResult
    /\ ret'.op \in {"PrivateKey", "RedeemScript"}

\* C38: the read holds on returnedSecretsMu are as many as the handles
\* returned by successful PrivateKey and RedeemScript calls and not yet
\* invoked.  A call that fails takes no hold and hands out no handle; a call
\* that succeeds takes exactly one hold and hands out one handle, and for an
\* address already in the returned-secrets map it leaves the manager as it
\* was, so the caller gets the cached secret.  An entry of the maps stays
\* as it is until the manager locks.
C38_HoldsMatchHandles ==
    /\ [](secretsReaders = Cardinality(HandlesOut))
    /\ [][SecretReturns =>
             IF ret'.err = ErrNone
             THEN /\ secretsReaders' = secretsReaders + 1
                  /\ LET before == IF ret'.op = "PrivateKey"
                                   THEN m.returnedPrivKeys
                                   ELSE m.returnedScripts
                         after == IF ret'.op = "PrivateKey"
                                  THEN m'.returnedPrivKeys
                                  ELSE m'.returnedScripts
                     IN  \E t \in Threads : \E addr \in DOMAIN after :
                            /\ addr \notin held[t]
                            /\ held' = [held EXCEPT ![t] = @ \cup {addr}]
                            /\ addr \in DOMAIN before => m' = m
             ELSE /\ secretsReaders' = secretsReaders
                  /\ held' = held
                  /\ m'.returnedPrivKeys = m.returnedPrivKeys
                  /\ m'.returnedScripts = m.returnedScripts]_vars
    /\ [][\/ /\ Extends(m'.returnedPrivKeys, m.returnedPrivKeys)
             /\ Extends(m'.returnedScripts, m.returnedScripts)
          \/ /\ m'.locked
             /\ m'.returnedPrivKeys = EmptyMap
             /\ m'.returnedScripts = EmptyMap]_vars

\* Two callers hold a handle for the same address, the second one served
\* from the returned-secrets map.
C38_Witness ==
    /\ secretsReaders = 2
    /\ \E addr \in Hashes : addr \in held["t1"] /\ addr \in held["t2"]
    /\ ret # NoResult
    /\ ret.op \in {"PrivateKey", "RedeemScript"}
    /\ ret.err = ErrNone

\* The branch of an account row that is not branch.
OtherBranch(branch) ==
    IF branch = ExternalBranch THEN InternalBranch ELSE ExternalBranch

\* Rows before and after agree on the other branch's indexes, on the name
\* and on both wrapped account keys.
MarkFrame(before, after, branch) ==
    /\ LastUsed(after, OtherBranch(branch))
           = LastUsed(before, OtherBranch(branch))
    /\ LastReturned(after, OtherBranch(branch))
           = LastReturned(before, OtherBranch(branch))
    /\ after.name = before.name
    /\ after.pubKeyEncrypted = before.pubKeyEncrypted
    /\ after.privKeyEncrypted = before.privKeyEncrypted

\* C39: MarkUsedChildIndex and MarkReturnedChildIndex on a branch of an
\* account leave the other branch's last used and last returned indexes,
\* the account name and both wrapped account keys as they were, and
\* MarkReturnedChildIndex changes neither last used index; the rows of the
\* other accounts and the rest of the store stay as they were as well.
C39_MarkKeepsOtherBranch ==
    [][\A account \in MarkAccounts, branch \in MarkBranches,
          child \in MarkIndexes :
          /\ (/\ ret'.op = "MarkUsedChildIndex"
              /\ MarkUsedChildIndex("t1", account, branch, child))
             => IF account \in DOMAIN db.accounts
                   /\ branch \in {ExternalBranch, InternalBranch}
                THEN /\ db' = putAccountRow(db, account,
                                            db'.accounts[account])
                     /\ MarkFrame(db.accounts[account],
                                  db'.accounts[account], branch)
                ELSE db' = db
          /\ (/\ ret'.op = "MarkReturnedChildIndex"
              /\ MarkReturnedChildIndex("t1", account, branch, child))
             => IF account \in DOMAIN db.accounts
                   /\ branch \in {ExternalBranch, InternalBranch}
                THEN /\ db' = putAccountRow(db, account,
                                            db'.accounts[account])
                     /\ MarkFrame(db.accounts[account],
                                  db'.accounts[account], branch)
                     /\ \A b \in {ExternalBranch, InternalBranch} :
                           LastUsed(db'.accounts[account], b)
                               = LastUsed(db.accounts[account], b)
                ELSE db' = db]_vars

\* MarkReturnedChildIndex has moved the external branch's last returned
\* child past its last used one while the internal branch has a last used
\* child and a later last returned one.
C39_Witness ==
    /\ ret # NoResult
    /\ ret.op = "MarkReturnedChildIndex"
    /\ ret.err = ErrNone
    /\ DefaultAccountNum \in DOMAIN db.accounts
    /\ LET row == db.accounts[DefaultAccountNum]
       IN  /\ row.lastUsedExternalIndex = 0
           /\ row.lastReturnedExternalIndex = 1
           /\ row.lastUsedInternalIndex = 0
           /\ row.lastReturnedInternalIndex = 1

\* A Close call returns in this step.
CloseReturns ==
    /\ ret = NoResult
    /\ ret' # NoResult
    /\ ret'.op = "Close"

\* Manager mgr is as a Close left it: closed, locked, the public master and
\* crypto keys zeroed.
AsClosed(mgr) ==
    /\ mgr.closed
    /\ mgr.locked
    /\ mgr.cryptoKeyPub = ZeroKey
    /\ mgr.masterKeyPub.Key = ZeroKey

\* C40: Close returns nil in every manager state, locked, unlocked,
\* watching-only or closed, with or without cached accounts, and leaves the
\* manager closed and locked; Close of a manager that is as a Close left it
\* changes nothing.
C40_CloseSafeIdempotent ==
    [][CloseReturns =>
          /\ ret'.err = ErrNone
          /\ m'.closed
          /\ m'.locked
          /\ AsClosed(m) => m' = m]_vars

====
